---- MODULE Spec2Model ----
(***************************************************************************)
(* A model of autonav's Rust core: the agentic tool-use loop of            *)
(* ClaudeAdapter::query, the self-configuration tools that read and        *)
(* rewrite the plugin configuration file, and the PluginManager with the   *)
(* three built-in plugins.                                                 *)
(*                                                                         *)
(* Four specifications share the variables:                               *)
(*   SpecQuery    one ClaudeAdapter::query against a scripted model        *)
(*   SpecConfig   update_plugin_config calls racing on one file            *)
(*   SpecManager  one caller driving a PluginManager                       *)
(*   SpecLocks    concurrent callers of one PluginManager                  *)
(***************************************************************************)
EXTENDS Integers, Sequences, FiniteSets, Bags, TLC

(***************************************************************************)
(* JSON values (serde_json::Value).  Each kind of value is a record with   *)
(* its own field name, so values of different kinds compare unequal.       *)
(***************************************************************************)
JNull == [null |-> TRUE]
JBool(b) == [bool |-> b]
JNum(n) == [num |-> n]
JStr(s) == [str |-> s]
JArr(a) == [arr |-> a]
JObj(o) == [obj |-> o]

IsNull(v) == "null" \in DOMAIN v
IsBool(v) == "bool" \in DOMAIN v
IsNum(v) == "num" \in DOMAIN v
IsStr(v) == "str" \in DOMAIN v
IsArr(v) == "arr" \in DOMAIN v
IsObj(v) == "obj" \in DOMAIN v

\* Value::get(key): the member of an object, None for a missing key or a
\* value that is no object.
None == [none |-> TRUE]
Some(x) == [some |-> x]
JGet(v, key) ==
    IF IsObj(v) /\ key \in DOMAIN v.obj THEN v.obj[key] ELSE None

\* Result<T, E>
Ok(v) == [ok |-> v]
Err(kind, msg) == [err |-> kind, msg |-> msg]
IsOk(r) == "ok" \in DOMAIN r
IsErr(r) == "err" \in DOMAIN r

\* An object given by its keys and a function on them.
EmptyObj == JObj([k \in {} |-> JNull])

HasType(v, ty) ==
    CASE ty = "bool" -> IsBool(v)
      [] ty = "str" -> IsStr(v)
      [] ty = "num" -> IsNum(v)
      [] ty = "strs" -> IsArr(v) /\ \A i \in DOMAIN v.arr : IsStr(v.arr[i])
      [] OTHER -> FALSE

(***************************************************************************)
(* The persisted plugin configuration (schemas/plugins.rs).                *)
(***************************************************************************)
PluginKinds == {"slack", "signal", "github", "email", "file_watcher"}

\* The serde description of each sub-record: the JSON key (camelCase), the
\* type, the default for a missing key, and whether the field is an Option
\* that is left out of the output when None.
Field(key, ty, dflt, opt) == [key |-> key, ty |-> ty, dflt |-> dflt, opt |-> opt]

Schema(kind) ==
    CASE kind = "slack" ->
           { Field("enabled", "bool", JBool(FALSE), FALSE),
             Field("channels", "strs", JArr(<<>>), FALSE),
             Field("threadNotifications", "bool", JBool(TRUE), FALSE),
             Field("token", "str", JNull, TRUE) }
      [] kind = "signal" ->
           { Field("enabled", "bool", JBool(FALSE), FALSE),
             Field("checkInSchedule", "str", JStr("daily"), FALSE) }
      [] kind = "github" ->
           { Field("enabled", "bool", JBool(FALSE), FALSE),
             Field("owner", "str", JStr(""), FALSE),
             Field("watchIssues", "bool", JBool(FALSE), FALSE),
             Field("token", "str", JNull, TRUE) }
      [] kind = "email" ->
           { Field("enabled", "bool", JBool(FALSE), FALSE),
             Field("digestFrequency", "str", JStr("weekly"), FALSE) }
      [] kind = "file_watcher" ->
           { Field("enabled", "bool", JBool(FALSE), FALSE),
             Field("paths", "strs", JArr(<<>>), FALSE),
             Field("patterns", "strs", JArr(<<>>), FALSE),
             Field("ignorePatterns", "strs", JArr(<<>>), FALSE) }

SchemaKeys(kind) == { f.key : f \in Schema(kind) }
FieldOf(kind, key) == CHOOSE f \in Schema(kind) : f.key = key

\* impl Default for SlackConfig, SignalConfig, ...: a typed sub-record is a
\* function from its keys to JSON values, JNull standing for Option::None.
DefaultSub(kind) == [k \in SchemaKeys(kind) |-> FieldOf(kind, k).dflt]

\* serde_json::to_value(&sub): Option fields that are None are skipped.
SubToValue(kind, sub) ==
    LET keys == { k \in SchemaKeys(kind) : ~(FieldOf(kind, k).opt /\ IsNull(sub[k])) }
    IN  JObj([k \in keys |-> sub[k]])

\* serde_json::from_value::<SubConfig>(v): a missing key takes its default,
\* an unknown key is ignored, a value of the wrong type is an error.
SubFieldOk(kind, v, k) ==
    \/ k \notin DOMAIN v.obj
    \/ HasType(v.obj[k], FieldOf(kind, k).ty)
    \/ (FieldOf(kind, k).opt /\ IsNull(v.obj[k]))

SubFromValue(kind, v) ==
    IF ~IsObj(v) THEN Err("JsonError", "invalid type")
    ELSE IF \E k \in SchemaKeys(kind) : ~SubFieldOk(kind, v, k)
    THEN Err("JsonError", "invalid type")
    ELSE Ok([k \in SchemaKeys(kind) |->
               IF k \in DOMAIN v.obj THEN v.obj[k] ELSE FieldOf(kind, k).dflt])

\* PluginConfig::default(): no workspace, no sub-record, no custom kind.
DefaultConfig ==
    [workspaces |-> <<>>,
     subs |-> [k \in PluginKinds |-> None],
     custom |-> [k \in {} |-> JNull]]

\* The file: absent, unparseable text, or the text of a JSON value.
NoFile == [absent |-> TRUE]
Garbage == [garbage |-> TRUE]
FileExists(file) == file # NoFile

\* PluginConfig::from_file: read_to_string, then serde_json::from_str.
\* Known keys that are present and not null parse as their sub-record; the
\* remaining keys land in the flattened `custom` map.
ConfigKeyOk(v, k) ==
    \/ k \notin DOMAIN v.obj
    \/ IsNull(v.obj[k])
    \/ IsOk(SubFromValue(k, v.obj[k]))

from_file(file) ==
    IF file = NoFile THEN Err("IoError", "not found")
    ELSE IF file = Garbage \/ ~IsObj(file) THEN Err("JsonError", "parse")
    ELSE IF \E k \in PluginKinds : ~ConfigKeyOk(file, k)
    THEN Err("JsonError", "invalid type")
    ELSE IF "workspaces" \in DOMAIN file.obj /\ ~HasType(file.obj["workspaces"], "strs")
    THEN Err("JsonError", "invalid type")
    ELSE Ok([workspaces |->
                IF "workspaces" \in DOMAIN file.obj
                THEN file.obj["workspaces"].arr ELSE <<>>,
             subs |-> [k \in PluginKinds |->
                IF k \in DOMAIN file.obj /\ ~IsNull(file.obj[k])
                THEN SubFromValue(k, file.obj[k]).ok ELSE None],
             custom |-> [k \in (DOMAIN file.obj) \ (PluginKinds \cup {"workspaces"})
                           |-> file.obj[k]]])

\* PluginConfig::save: to_string_pretty and fs::write of the whole file.  An
\* empty workspaces list and a None sub-record are skipped.
ConfigToValue(config) ==
    LET kinds == { k \in PluginKinds : config.subs[k] # None }
        ws == IF config.workspaces = <<>> THEN {} ELSE {"workspaces"}
        keys == kinds \cup ws \cup DOMAIN config.custom
    IN  JObj([k \in keys |->
                IF k \in kinds THEN SubToValue(k, config.subs[k])
                ELSE IF k \in ws THEN JArr(config.workspaces)
                ELSE config.custom[k]])

\* merge_json: every key of source is inserted into target; nothing happens
\* unless both are objects.
merge_json(target, source) ==
    IF IsObj(target) /\ IsObj(source)
    THEN JObj([k \in DOMAIN target.obj \cup DOMAIN source.obj |->
                 IF k \in DOMAIN source.obj THEN source.obj[k] ELSE target.obj[k]])
    ELSE target

(***************************************************************************)
(* The self-configuration tools (tools.rs).  Each operator gives the       *)
(* tool's result and the file it leaves behind.                            *)
(***************************************************************************)
KnownPlugin(name) == name \in PluginKinds

\* Option<&str> of input.get("plugin").and_then(as_str)
PluginField(input) ==
    LET v == JGet(input, "plugin") IN IF v # None /\ IsStr(v) THEN Some(v.str) ELSE None

\* tools.rs 139-145 and 190-196: the configuration a tool starts from.
LoadFailed(loaded) ==
    IF IsOk(loaded) THEN loaded ELSE Err("ToolError", "Failed to load config")

LoadConfig(file) ==
    IF FileExists(file) THEN LoadFailed(from_file(file)) ELSE Ok(DefaultConfig)

\* serde_json::to_value(&config.<kind>): an Option serialises to null or to
\* the sub-record.
OptSubToValue(kind, sub) == IF sub = None THEN JNull ELSE SubToValue(kind, sub)

\* tools.rs 147-162: the answer for the named plugin, given what was loaded.
ConfigAnswer(plugin, loaded) ==
    IF IsErr(loaded) THEN loaded
    ELSE IF plugin = "all"
    THEN Ok(JObj([k \in {"success", "config"} |->
             IF k = "success" THEN JBool(TRUE) ELSE ConfigToValue(loaded.ok)]))
    ELSE IF KnownPlugin(plugin)
    THEN Ok(JObj([k \in {"success", "config"} |->
             IF k = "success" THEN JBool(TRUE)
             ELSE OptSubToValue(plugin, loaded.ok.subs[plugin])]))
    ELSE Err("ToolError", "Unknown plugin")

get_plugin_config(input, path, file) ==
    IF PluginField(input) = None THEN Err("ToolError", "Missing plugin field")
    ELSE IF path = None THEN Err("ToolError", "No plugins config path")
    ELSE ConfigAnswer(PluginField(input).some, LoadConfig(file))

\* tools.rs 204-206 (and the same three lines for each kind): `current` is
\* serialised into a temporary value, the updates are merged into that
\* temporary, and the sub-record stored back is `current` serialised again.
ApplyUpdates(kind, current, updates) ==
    LET merged == merge_json(SubToValue(kind, current), updates)
    IN  SubFromValue(kind, SubToValue(kind, current))

\* A variant of StoreSub that keeps the known kinds only.
StoreSubDropsCustom(config, plugin, new) ==
    IF IsErr(new) THEN new
    ELSE Ok([config EXCEPT !.subs[plugin] = new.ok, !.custom = [k \in {} |-> JNull]])

\* tools.rs 202-229: the configuration to save, or the error.
StoreSub(config, plugin, new) ==
    IF IsErr(new) THEN new ELSE Ok([config EXCEPT !.subs[plugin] = new.ok])

\* A variant of UpdatedConfig that lets an unknown plugin name through.
UpdatedConfigAnyName(config, plugin, updates) ==
    IF ~KnownPlugin(plugin) THEN Ok(config)
    ELSE StoreSub(config, plugin,
                  ApplyUpdates(plugin,
                               IF config.subs[plugin] = None
                               THEN DefaultSub(plugin) ELSE config.subs[plugin],
                               updates))

UpdatedConfig(config, plugin, updates) ==
    IF ~KnownPlugin(plugin) THEN Err("ToolError", "Unknown plugin")
    ELSE StoreSub(config, plugin,
                  ApplyUpdates(plugin,
                               IF config.subs[plugin] = None
                               THEN DefaultSub(plugin) ELSE config.subs[plugin],
                               updates))

\* What update_plugin_config decides before it touches the file system.
UpdateInputError(input, path) ==
    IF PluginField(input) = None THEN Err("ToolError", "Missing plugin field")
    ELSE IF JGet(input, "updates") = None THEN Err("ToolError", "Missing updates field")
    ELSE IF path = None THEN Err("ToolError", "No plugins config path")
    ELSE None

UpdateSuccess(input) ==
    Ok(JObj([k \in {"success", "message", "reason"} |->
          IF k = "success" THEN JBool(TRUE)
          ELSE IF k = "message" THEN JStr(PluginField(input).some)
          ELSE IF JGet(input, "reason") # None /\ IsStr(JGet(input, "reason"))
               THEN JGet(input, "reason") ELSE JStr("No reason provided")]))

\* update_plugin_config run without interruption: [result, file].
\* tools.rs 232-240: the configuration is saved and success reported.
SaveUpdated(input, file, new) ==
    IF IsErr(new) THEN [result |-> new, file |-> file]
    ELSE [result |-> UpdateSuccess(input), file |-> ConfigToValue(new.ok)]

\* tools.rs 198-229: the loaded configuration is updated.
UpdateLoaded(input, file, loaded) ==
    IF IsErr(loaded) THEN [result |-> loaded, file |-> file]
    ELSE SaveUpdated(input, file,
             UpdatedConfig(loaded.ok, PluginField(input).some, JGet(input, "updates")))

RejectOr(bad, input, file) ==
    IF bad # None THEN [result |-> bad, file |-> file]
    ELSE UpdateLoaded(input, file, LoadConfig(file))

update_plugin_config(input, path, file) ==
    RejectOr(UpdateInputError(input, path), input, file)

(***************************************************************************)
(* The answer (schemas/response.rs) and the submit_answer tool             *)
(* (adapter.rs, execute_tool).  A confidence is an f64 in the code; here   *)
(* it is a whole number of tenths, so 5 is 0.5 and 10 is 1.0.              *)
(***************************************************************************)
DefaultConfidence == 5

SourceKeys == {"file", "section", "relevance"}

\* serde_json::from_value::<Source>: the three keys, each a string; other
\* keys are ignored.
SourceOk(v) ==
    IsObj(v) /\ \A k \in SourceKeys : k \in DOMAIN v.obj /\ IsStr(v.obj[k])

ParseSource(v) ==
    [file |-> v.obj["file"].str, section |-> v.obj["section"].str,
     relevance |-> v.obj["relevance"].str]

\* input.get("sources").and_then(|v| from_value(v).ok()).unwrap_or_default()
ParseSources(input) ==
    LET v == JGet(input, "sources")
    IN  IF v # None /\ IsArr(v) /\ \A i \in DOMAIN v.arr : SourceOk(v.arr[i])
        THEN [i \in DOMAIN v.arr |-> ParseSource(v.arr[i])]
        ELSE <<>>

\* A variant of ParseConfidence that always takes the default.
ParseConfidenceIgnoresInput(input) == DefaultConfidence

\* input.get("confidence").and_then(|v| v.as_f64()).unwrap_or(0.5)
ParseConfidence(input) ==
    LET v == JGet(input, "confidence")
    IN  IF v # None /\ IsNum(v) THEN v.num ELSE DefaultConfidence

SourceToValue(s) ==
    JObj([k \in SourceKeys |->
            IF k = "file" THEN JStr(s.file)
            ELSE IF k = "section" THEN JStr(s.section) ELSE JStr(s.relevance)])

\* serde_json::to_value(NavigatorResponse): camelCase keys, empty metadata
\* skipped, the timestamp present when it is Some.
ResponseToValue(r) ==
    LET keys == {"protocolVersion", "query", "answer", "sources", "confidence"}
                  \cup (IF r.timestamp THEN {"timestamp"} ELSE {})
    IN  JObj([k \in keys |->
          CASE k = "protocolVersion" -> JStr(r.protocol_version)
            [] k = "query" -> JStr(r.query)
            [] k = "answer" -> JStr(r.answer)
            [] k = "sources" -> JArr([i \in DOMAIN r.sources |-> SourceToValue(r.sources[i])])
            [] k = "confidence" -> JNum(r.confidence)
            [] OTHER -> JStr("now")])

\* serde_json::from_value::<NavigatorResponse>: query, answer, sources and
\* confidence are required; protocolVersion has a default.
ResponseFromValue(v) ==
    IF /\ IsObj(v)
       /\ \A k \in {"query", "answer"} : k \in DOMAIN v.obj /\ IsStr(v.obj[k])
       /\ "confidence" \in DOMAIN v.obj /\ IsNum(v.obj["confidence"])
       /\ "sources" \in DOMAIN v.obj /\ IsArr(v.obj["sources"])
       /\ \A i \in DOMAIN v.obj["sources"].arr : SourceOk(v.obj["sources"].arr[i])
       /\ ("protocolVersion" \in DOMAIN v.obj => IsStr(v.obj["protocolVersion"]))
    THEN Ok([protocol_version |->
                IF "protocolVersion" \in DOMAIN v.obj
                THEN v.obj["protocolVersion"].str ELSE "1.0.0",
             query |-> v.obj["query"].str,
             answer |-> v.obj["answer"].str,
             sources |-> [i \in DOMAIN v.obj["sources"].arr |->
                            ParseSource(v.obj["sources"].arr[i])],
             confidence |-> v.obj["confidence"].num,
             timestamp |-> "timestamp" \in DOMAIN v.obj])
    ELSE Err("JsonError", "invalid type")

\* NavigatorResponse::new(query, answer, confidence)
NewResponse(query, answer, confidence) ==
    [protocol_version |-> "1.0.0", query |-> query, answer |-> answer,
     sources |-> <<>>, confidence |-> confidence, timestamp |-> TRUE]

\* execute_tool, the "submit_answer" arm.
submit_answer(input) ==
    LET a == JGet(input, "answer")
    IN  IF a = None \/ ~IsStr(a) THEN Err("ToolError", "Missing answer field")
        ELSE Ok(ResponseToValue(
                 [protocol_version |-> "1.0.0", query |-> "", answer |-> a.str,
                  sources |-> ParseSources(input),
                  confidence |-> ParseConfidence(input), timestamp |-> TRUE]))

\* execute_tool: [result, file] of one tool call.
execute_tool(name, input, path, file) ==
    CASE name = "submit_answer" -> [result |-> submit_answer(input), file |-> file]
      [] name = "get_plugin_config" ->
           [result |-> get_plugin_config(input, path, file), file |-> file]
      [] name = "update_plugin_config" -> update_plugin_config(input, path, file)
      [] OTHER -> [result |-> Err("ToolError", "Unknown tool"), file |-> file]

\* handle_tool_calls: the tool-use blocks of the content run in order; the
\* first failure ends the run.  st = [results, file, err].
\* A variant of Pushed that drops a failed call and goes on.
PushedSkipsFailure(content, i, st, r) ==
    IF IsErr(r.result) THEN st
    ELSE [results |-> Append(st.results,
                        [tool_use_id |-> content[i].id,
                         tool_name |-> content[i].name,
                         result |-> r.result.ok]),
          file |-> r.file, err |-> None]

\* adapter.rs 222-228: `?` on the tool's result, then the push.
Pushed(content, i, st, r) ==
    IF IsErr(r.result)
    THEN [st EXCEPT !.err = r.result]
    ELSE [results |-> Append(st.results,
                        [tool_use_id |-> content[i].id,
                         tool_name |-> content[i].name,
                         result |-> r.result.ok]),
          file |-> r.file, err |-> None]

\* A variant of RunBlocks that runs nothing after a submit_answer call.
RECURSIVE RunBlocksStopsAtSubmit(_, _, _, _)
RunBlocksStopsAtSubmit(content, i, path, st) ==
    IF i > Len(content) \/ st.err # None THEN st
    ELSE IF st.results # <<>> /\ st.results[Len(st.results)].tool_name = "submit_answer"
    THEN st
    ELSE IF content[i].type # "tool_use"
    THEN RunBlocksStopsAtSubmit(content, i + 1, path, st)
    ELSE RunBlocksStopsAtSubmit(content, i + 1, path,
             Pushed(content, i, st,
                    execute_tool(content[i].name, content[i].input, path, st.file)))

RECURSIVE RunBlocks(_, _, _, _)
RunBlocks(content, i, path, st) ==
    IF i > Len(content) \/ st.err # None THEN st
    ELSE IF content[i].type # "tool_use" THEN RunBlocks(content, i + 1, path, st)
    ELSE RunBlocks(content, i + 1, path,
             Pushed(content, i, st,
                    execute_tool(content[i].name, content[i].input, path, st.file)))

handle_tool_calls(content, path, file) ==
    RunBlocks(content, 1, path, [results |-> <<>>, file |-> file, err |-> None])

\* adapter.rs 123-132: the first submit_answer result that parses as a
\* NavigatorResponse, None when there is none.
Parsed(tool_name, resp) == tool_name = "submit_answer" /\ IsOk(resp)

RECURSIVE FirstSubmitted(_, _)
FirstSubmitted(results, i) ==
    IF i > Len(results) THEN None
    ELSE IF Parsed(results[i].tool_name, ResponseFromValue(results[i].result))
    THEN ResponseFromValue(results[i].result).ok
    ELSE FirstSubmitted(results, i + 1)

\* A variant of extract_text that returns the last text block.
ExtractLastText(content, i) ==
    LET T == { j \in i..Len(content) : content[j].type = "text" }
    IN  IF T = {} THEN None
        ELSE Some(content[CHOOSE j \in T : \A k \in T : k <= j].text)

\* extract_text: the first text block, as an Option.
RECURSIVE extract_text(_, _)
extract_text(content, i) ==
    IF i > Len(content) THEN None
    ELSE IF content[i].type = "text" THEN Some(content[i].text)
    ELSE extract_text(content, i + 1)

(***************************************************************************)
(* Bounds of the model and the inputs drawn within them.                   *)
(***************************************************************************)
MaxTurns == 3        \* max_turns ranges over 0..MaxTurns
MaxBlocks == 2       \* content blocks in one model response

TextBlock(t) == [type |-> "text", text |-> t]
ToolUse(id, name, input) == [type |-> "tool_use", id |-> id, name |-> name, input |-> input]

\* The file of a source is the sequence of the pieces of its text: "..", "/"
\* and names.
DocsA == <<"docs", "/", "a.md">>
UpSecret == <<"..", "/", "secret">>

Src1 == JObj([k \in SourceKeys |->
          IF k = "file" THEN JStr(DocsA)
          ELSE IF k = "section" THEN JStr("Intro") ELSE JStr("why")])
Src2 == JObj([k \in SourceKeys |->
          IF k = "file" THEN JStr(UpSecret)
          ELSE IF k = "section" THEN JStr("Top") ELSE JStr("because")])
SrcBad == JObj([k \in {"file"} |-> JStr(DocsA)])

\* A submit_answer input from its three members, None for a missing one.
SubmitInput(a, srcs, c) ==
    LET keys == (IF a = None THEN {} ELSE {"answer"})
                \cup (IF srcs = None THEN {} ELSE {"sources"})
                \cup (IF c = None THEN {} ELSE {"confidence"})
    IN  JObj([k \in keys |-> IF k = "answer" THEN a ELSE IF k = "sources" THEN srcs ELSE c])

SubmitInputs ==
    { SubmitInput(JStr("a1"), JArr(<<Src1>>), JNum(9)),
      SubmitInput(JStr("a2"), JArr(<<Src1, Src2>>), None),
      SubmitInput(None, JArr(<<Src1>>), JNum(9)),
      SubmitInput(JStr("a1"), JStr("oops"), JStr("high")),
      SubmitInput(JStr("a1"), JArr(<<SrcBad>>), JNum(15)) }

\* The input contract of the submit_answer tool (tools.rs 40-77), with the
\* confidence allowed to be absent: what "well-formed" means.
WellFormedSubmit(input) ==
    /\ JGet(input, "answer") # None /\ IsStr(JGet(input, "answer"))
    /\ JGet(input, "sources") # None /\ IsArr(JGet(input, "sources"))
    /\ \A i \in DOMAIN JGet(input, "sources").arr : SourceOk(JGet(input, "sources").arr[i])
    /\ \/ JGet(input, "confidence") = None
       \/ /\ IsNum(JGet(input, "confidence"))
          /\ JGet(input, "confidence").num \in 0..10

ToolInput(plugin, updates) ==
    JObj([k \in {"plugin"} \cup (IF updates = None THEN {} ELSE {"updates", "reason"}) |->
          IF k = "plugin" THEN JStr(plugin)
          ELSE IF k = "updates" THEN updates ELSE JStr("asked")])

EnableUpdate == JObj([k \in {"enabled"} |-> JBool(TRUE)])

\* The blocks a scripted model may put in a response; ids are given by
\* position when the response is built.
BlockTemplates ==
    { TextBlock("t1"), TextBlock("t2") }
    \cup { ToolUse(0, "submit_answer", i) : i \in SubmitInputs }
    \cup { ToolUse(0, "update_plugin_config", ToolInput("slack", EnableUpdate)),
           ToolUse(0, "update_plugin_config", ToolInput("bogus", EnableUpdate)),
           ToolUse(0, "search", EmptyObj) }

WithIds(seq) ==
    [i \in DOMAIN seq |-> IF seq[i].type = "tool_use" THEN [seq[i] EXCEPT !.id = i] ELSE seq[i]]

Contents ==
    UNION { { WithIds(c) : c \in [1..n -> BlockTemplates] } : n \in 0..MaxBlocks }

StopReasons == {"tool_use", "end_turn", "none", "max_tokens"}

\* Files a navigator may start with.
SlackGeneral ==
    JObj([k \in {"enabled", "channels"} |->
            IF k = "enabled" THEN JBool(FALSE) ELSE JArr(<<JStr("general")>>)])
FileSlack == JObj([k \in {"slack"} |-> SlackGeneral])
InitialFiles == {NoFile, Garbage, FileSlack}

(***************************************************************************)
(* ClaudeAdapter::query (adapter.rs 66-167).                               *)
(***************************************************************************)
VARIABLES
    cfgFile,               \* the plugin configuration file on disk
    max_turns,             \* ClaudeAdapter.max_turns
    api_key,               \* whether ClaudeAdapter.api_key is Some
    plugins_config_path,   \* LoadedNavigator.plugins_config_path
    turns,                 \* the loop counter
    response,              \* Option<NavigatorResponse>
    messages,              \* the conversation: role and content of each message
    apiCalls,              \* call_api invocations so far
    qpc,                   \* "start", "loop", "done"
    qresult,               \* what query returned
    api_response,          \* the latest ApiResponse
    tool_results,          \* the tool results of the latest tool_use turn
    scripted,              \* every response so far was tool_use without submit_answer
    \* update_plugin_config calls in flight (SpecConfig)
    initialFile,           \* the file before the first call
    updInput,              \* per call: the tool input
    updPc,                 \* per call: "start", "checked", "loaded", "done"
    updExists,             \* per call: what config_path.exists() answered
    updConfig,             \* per call: the configuration to save
    updBefore,             \* per call: the configuration it loaded
    updResult,             \* per call: what the tool returned
    \* the plugin manager (SpecManager)
    plugins,               \* PluginManager.plugins: name -> plugin instance
    config_path,           \* PluginManager.config_path
    plugin_manager,        \* whether LoadedNavigator.plugin_manager is Some
    env,                   \* what the providers and the file system answered it
    lastOp,                \* the operation that ran last, with its argument
    mgrResult,             \* what it returned
    calls,                 \* the plugin methods it called (a bag)
    \* concurrent manager calls (SpecLocks)
    lockWriter,            \* per plugin: the task holding the write guard
    lockReaders,           \* per plugin: the tasks holding a read guard
    taskOp,                \* per task: the manager call it is in
    taskTodo,              \* per task: the plugins it has yet to visit
    taskIn,                \* per task: the plugin whose method it is running
    \* QueryEngine::query (SpecEngine)
    engPc,                 \* "idle", "running", "done"
    engOptions,            \* QueryOptions: confidence_threshold, validate_sources
    engConfigThreshold,    \* navigator.config.confidence_threshold
    engExisting,           \* the source files that exist under the knowledge base
    engResult,             \* what QueryEngine::query returned
    \* one FileWatcherPlugin in the hands of a caller (SpecWatcher)
    fwPlugin,              \* the plugin
    fwOp,                  \* the method called last
    fwResult,              \* what it returned
    \* one self-configuration tool call at a time (SpecTools)
    toolName,              \* the tool called last
    toolInput,             \* its input
    toolResult,            \* what it returned
    \* one built-in plugin in the hands of a caller (SpecPlugin)
    plPlugin,              \* the plugin
    plOp,                  \* the method called last and its argument
    plResult,              \* what it returned
    plCalled,              \* whether it reached the provider
    plOpen,                \* whether the repository has an open issue
    plQuiet,               \* the initialized plugin's previous listen reached the
                           \* provider, and nothing happened since
    \* the event buffer of that FileWatcherPlugin beside the watcher's
    \* callback (SpecBuffer)
    evLock,                \* who holds the lock of `events`: "free", "listen", "clear"
    delivered,             \* notifications handed to the callback so far
    taken,                 \* notifications listen took out of the buffer
    removed                \* notifications cleared by FileWatcherClear or shutdown

uvars == <<initialFile, updInput, updPc, updExists, updConfig, updBefore, updResult>>

mvars == <<plugins, config_path, plugin_manager, env, lastOp, mgrResult, calls>>

lvars == <<lockWriter, lockReaders, taskOp, taskTodo, taskIn>>

evars == <<engPc, engOptions, engConfigThreshold, engExisting, engResult>>

bvars == <<evLock, delivered, taken, removed>>

wvars == <<fwPlugin, fwOp, fwResult, bvars>>

tvars == <<toolName, toolInput, toolResult>>

pvars == <<plPlugin, plOp, plResult, plCalled, plOpen, plQuiet>>

qvars == <<cfgFile, max_turns, api_key, plugins_config_path, turns, response, messages,
           apiCalls, qpc, qresult, api_response, tool_results, scripted>>

Question == "q1"

\* No update_plugin_config call is in flight.
IdleUpdaters ==
    /\ initialFile = NoFile
    /\ updInput = <<>> /\ updPc = <<>> /\ updExists = <<>>
    /\ updConfig = <<>> /\ updBefore = <<>> /\ updResult = <<>>

\* No plugin manager exists.
IdleManager ==
    /\ plugins = <<>> /\ config_path = None /\ plugin_manager = FALSE
    /\ env = <<>> /\ lastOp = None /\ mgrResult = None /\ calls = EmptyBag

\* No task is inside a manager call.
IdleTasks ==
    /\ lockWriter = <<>> /\ lockReaders = <<>>
    /\ taskOp = <<>> /\ taskTodo = <<>> /\ taskIn = <<>>

\* No FileWatcherPlugin is held outside a manager.
\* Nobody holds the lock of the event buffer and nothing was delivered.
IdleBuffer == evLock = "free" /\ delivered = 0 /\ taken = 0 /\ removed = 0

IdleWatcher == fwPlugin = None /\ fwOp = None /\ fwResult = None /\ IdleBuffer

\* No tool is called outside a query.
IdleTools == toolName = None /\ toolInput = None /\ toolResult = None

\* No plugin is held outside a manager.
IdlePlugin ==
    /\ plPlugin = None /\ plOp = None /\ plResult = None
    /\ plCalled = FALSE /\ plOpen = FALSE /\ plQuiet = FALSE

\* No QueryEngine::query is running.
IdleEngine ==
    /\ engPc = "idle" /\ engOptions = None /\ engConfigThreshold = None
    /\ engExisting = {} /\ engResult = None

\* adapter.rs 312-324: a message and the three shapes of its content.
Message(role, content) == [role |-> role, content |-> content]
Text(text) == [text |-> text]
Blocks(blocks) == [blocks |-> blocks]
ToolResults(results) == [tool_results |-> results]

\* prompts.rs 92-112: the question inside the text around it.
create_answer_question_prompt(question) ==
    <<"Please answer the following question", question, "Use the submit_answer tool">>

NoApiResponse == [content |-> <<>>, stop_reason |-> "unset"]

InitQuery ==
    /\ cfgFile \in InitialFiles
    /\ max_turns \in 0..MaxTurns
    /\ api_key \in BOOLEAN
    /\ plugins_config_path \in {None, Some("plugins.json")}
    /\ turns = 0
    /\ response = None
    /\ messages = <<>>
    /\ apiCalls = 0
    /\ qpc = "start"
    /\ qresult = None
    /\ api_response = NoApiResponse
    /\ tool_results = <<>>
    /\ scripted = TRUE
    /\ IdleUpdaters
    /\ IdleManager
    /\ IdleTasks
    /\ IdleEngine
    /\ IdleWatcher
    /\ IdleTools
    /\ IdlePlugin

\* adapter.rs 72-102: the key is required; the conversation starts with the
\* user message.
QueryStart ==
    /\ qpc = "start"
    /\ IF api_key
       THEN /\ qpc' = "loop"
            /\ messages' = <<Message("user", Text(create_answer_question_prompt(Question)))>>
            /\ qresult' = qresult
       ELSE /\ qpc' = "done"
            /\ messages' = messages
            /\ qresult' = Err("ClaudeApiError", "ANTHROPIC_API_KEY not set")
    /\ UNCHANGED <<cfgFile, max_turns, api_key, plugins_config_path, turns, response,
                   apiCalls, api_response, tool_results, scripted>>
    /\ UNCHANGED <<uvars, mvars, lvars, evars, wvars, tvars, pvars>>

\* A variant of LoopCondition that admits one turn too many.
LoopConditionOffByOne == turns <= max_turns /\ response = None

\* A variant of LoopCondition that tests the budget after the first turn
\* only.
LoopConditionAfterFirst == (turns = 0 \/ turns < max_turns) /\ response = None

\* adapter.rs 104: the loop condition.
LoopCondition == turns < max_turns /\ response = None

HasSubmit(content) ==
    \E i \in DOMAIN content :
        content[i].type = "tool_use" /\ content[i].name = "submit_answer"

\* The ways a model call fails: a non-2xx status with its body (the body is
\* empty when it cannot be read), a transport failure of send(), or a 2xx
\* body that is not an ApiResponse.
StatusFailure(status, body) == [kind |-> "status", status |-> status, body |-> body]
ApiFailures ==
    { StatusFailure("429", "overloaded"), StatusFailure("500", ""),
      [kind |-> "transport", status |-> "", body |-> ""],
      [kind |-> "decode", status |-> "200", body |-> "not json"] }

\* format!("HTTP {}: {}", status, body)
HttpMessage(status, body) ==
    CASE status = "429" /\ body = "overloaded" -> "HTTP 429: overloaded"
      [] status = "500" /\ body = "" -> "HTTP 500: "
      [] OTHER -> "HTTP"

\* adapter.rs 198-210: the error call_api returns for a failure.
call_api_error(f) ==
    IF f.kind = "status" THEN Err("ClaudeApiError", HttpMessage(f.status, f.body))
    ELSE Err("HttpError", "reqwest error")

\* What the latest call_api came back with when it failed.
FailedCall(f) == [content |-> <<>>, stop_reason |-> "error", failure |-> f]

\* A variant of CallApiFails that swallows the failure and goes on with the
\* loop.
CallApiFailsRetries ==
    /\ qpc = "loop" /\ LoopCondition
    /\ \E f \in ApiFailures : api_response' = FailedCall(f)
    /\ turns' = turns + 1
    /\ apiCalls' = apiCalls + 1
    /\ scripted' = FALSE
    /\ UNCHANGED <<cfgFile, max_turns, api_key, plugins_config_path, response, messages,
                   qpc, qresult, tool_results>>
    /\ UNCHANGED <<uvars, mvars, lvars, evars, wvars, tvars, pvars>>

\* adapter.rs 109-111: call_api fails (non-2xx status, transport error or
\* undecodable body) and `?` returns the error.
CallApiFails ==
    /\ qpc = "loop" /\ LoopCondition
    /\ \E f \in ApiFailures :
         /\ api_response' = FailedCall(f)
         /\ qresult' = call_api_error(f)
    /\ turns' = turns + 1
    /\ apiCalls' = apiCalls + 1
    /\ qpc' = "done"
    /\ scripted' = FALSE
    /\ UNCHANGED <<cfgFile, max_turns, api_key, plugins_config_path, response, messages,
                   tool_results>>
    /\ UNCHANGED <<uvars, mvars, lvars, evars, wvars, tvars, pvars>>

\* A variant of ToolsRan that records the tool results before the
\* assistant message.
ToolsRanResultsFirst(content, run) ==
    /\ cfgFile' = run.file
    /\ IF run.err # None
       THEN /\ qpc' = "done"
            /\ qresult' = run.err
            /\ UNCHANGED <<response, messages, tool_results>>
       ELSE /\ response' = FirstSubmitted(run.results, 1)
            /\ tool_results' = run.results
            /\ messages' = messages
                  \o <<Message("user", ToolResults(run.results)),
                       Message("assistant", Blocks(content))>>
            /\ UNCHANGED <<qpc, qresult>>

\* adapter.rs 116-143: what the turn does with the outcome of its tool calls.
ToolsRan(content, run) ==
    /\ cfgFile' = run.file
    /\ IF run.err # None
       THEN /\ qpc' = "done"
            /\ qresult' = run.err
            /\ UNCHANGED <<response, messages, tool_results>>
       ELSE /\ response' = FirstSubmitted(run.results, 1)
            /\ tool_results' = run.results
            /\ messages' = messages
                  \o <<Message("assistant", Blocks(content)),
                       Message("user", ToolResults(run.results))>>
            /\ UNCHANGED <<qpc, qresult>>

\* adapter.rs 115-144: a tool_use response.
ToolUseTurn ==
    /\ qpc = "loop" /\ LoopCondition
    /\ \E content \in Contents :
         /\ turns' = turns + 1
         /\ apiCalls' = apiCalls + 1
         /\ api_response' = [content |-> content, stop_reason |-> "tool_use"]
         /\ scripted' = (scripted /\ ~HasSubmit(content))
         /\ ToolsRan(content, handle_tool_calls(content, plugins_config_path, cfgFile))
    /\ UNCHANGED <<max_turns, api_key, plugins_config_path>>
    /\ UNCHANGED <<uvars, mvars, lvars, evars, wvars, tvars, pvars>>

\* adapter.rs 164-166: what query returns once the loop is left.
AfterLoop(resp) ==
    IF resp = None THEN Err("QueryError", "No response generated") ELSE Ok(resp)

\* A variant of EndTurn that goes on to the next turn when the response
\* has no text block.
EndTurnRetriesWithoutText ==
    /\ qpc = "loop" /\ LoopCondition
    /\ \E content \in Contents, stop \in {"end_turn", "none"} :
         LET text == extract_text(content, 1)
         IN  /\ turns' = turns + 1
             /\ apiCalls' = apiCalls + 1
             /\ api_response' = [content |-> content, stop_reason |-> stop]
             /\ response' = IF text # None
                             THEN NewResponse(Question, text.some, DefaultConfidence)
                             ELSE response
             /\ qpc' = IF text # None THEN "done" ELSE "loop"
             /\ qresult' = IF text # None THEN AfterLoop(response') ELSE qresult
             /\ scripted' = FALSE
    /\ UNCHANGED <<cfgFile, max_turns, api_key, plugins_config_path, messages,
                   tool_results>>
    /\ UNCHANGED <<uvars, mvars, lvars, evars, wvars, tvars, pvars>>

\* adapter.rs 145-156 and 164-166: end_turn or no stop reason; the first
\* text block becomes the answer, and `break` leaves the loop either way.
EndTurn ==
    /\ qpc = "loop" /\ LoopCondition
    /\ \E content \in Contents, stop \in {"end_turn", "none"} :
         LET text == extract_text(content, 1)
         IN  /\ turns' = turns + 1
             /\ apiCalls' = apiCalls + 1
             /\ api_response' = [content |-> content, stop_reason |-> stop]
             /\ response' = IF text # None
                             THEN NewResponse(Question, text.some, DefaultConfidence)
                             ELSE response
             /\ qpc' = "done"
             /\ qresult' = AfterLoop(response')
             /\ scripted' = FALSE
    /\ UNCHANGED <<cfgFile, max_turns, api_key, plugins_config_path, messages,
                   tool_results>>
    /\ UNCHANGED <<uvars, mvars, lvars, evars, wvars, tvars, pvars>>

\* A variant of UnexpectedStop without the `break`.
UnexpectedStopContinues ==
    /\ qpc = "loop" /\ LoopCondition
    /\ \E content \in Contents, stop \in StopReasons \ {"tool_use", "end_turn", "none"} :
         api_response' = [content |-> content, stop_reason |-> stop]
    /\ turns' = turns + 1
    /\ apiCalls' = apiCalls + 1
    /\ scripted' = FALSE
    /\ UNCHANGED <<cfgFile, max_turns, api_key, plugins_config_path, response, messages,
                   qpc, qresult, tool_results>>
    /\ UNCHANGED <<uvars, mvars, lvars, evars, wvars, tvars, pvars>>

\* adapter.rs 157-160 and 164-166: any other stop reason leaves the loop.
UnexpectedStop ==
    /\ qpc = "loop" /\ LoopCondition
    /\ \E content \in Contents, stop \in StopReasons \ {"tool_use", "end_turn", "none"} :
         /\ turns' = turns + 1
         /\ apiCalls' = apiCalls + 1
         /\ api_response' = [content |-> content, stop_reason |-> stop]
         /\ qpc' = "done"
         /\ qresult' = AfterLoop(response)
         /\ scripted' = FALSE
    /\ UNCHANGED <<cfgFile, max_turns, api_key, plugins_config_path, response, messages,
                   tool_results>>
    /\ UNCHANGED <<uvars, mvars, lvars, evars, wvars, tvars, pvars>>

\* adapter.rs 104 and 164-166: the loop condition fails.
LoopExit ==
    /\ qpc = "loop" /\ ~LoopCondition
    /\ qpc' = "done"
    /\ qresult' = AfterLoop(response)
    /\ UNCHANGED <<cfgFile, max_turns, api_key, plugins_config_path, turns, response,
                   messages, apiCalls, api_response, tool_results, scripted>>
    /\ UNCHANGED <<uvars, mvars, lvars, evars, wvars, tvars, pvars>>

NextQuery == QueryStart \/ CallApiFails \/ ToolUseTurn \/ EndTurn \/ UnexpectedStop \/ LoopExit

vars == <<qvars, uvars, mvars, lvars, evars, wvars, tvars, pvars>>

SpecQuery == InitQuery /\ [][NextQuery]_vars

\* The query is one sequential task: while it has a step to take it takes
\* one, every model call coming back with a response or a failure.
SpecQueryLive == InitQuery /\ [][NextQuery]_vars /\ WF_vars(NextQuery)

(***************************************************************************)
(* Properties of the query loop.                                           *)
(***************************************************************************)
NoResponseGenerated == Err("QueryError", "No response generated")
ToolFailed == IsErr(qresult) /\ qresult.err = "ToolError"

\* C1: with a turn budget N >= 1, a model that answers every call with
\* stop_reason = tool_use and never calls submit_answer, and no failing tool
\* call, the query makes exactly N model calls and then fails with "No
\* response generated"; it never makes an (N+1)-th call and never returns an
\* answer.
C1_BudgetExhausted ==
    (api_key /\ max_turns >= 1 /\ scripted) =>
        /\ apiCalls <= max_turns
        /\ ~IsOk(qresult)
        /\ (qpc = "done" /\ ~ToolFailed) =>
              (apiCalls = max_turns /\ qresult = NoResponseGenerated)

C1_Witness ==
    /\ qpc = "done" /\ scripted /\ max_turns = MaxTurns
    /\ apiCalls = MaxTurns /\ qresult = NoResponseGenerated
    /\ api_response.stop_reason = "tool_use" /\ Len(tool_results) > 0

\* The submit_answer blocks of the latest response.
SubmitBlocks ==
    { i \in DOMAIN api_response.content :
        /\ api_response.content[i].type = "tool_use"
        /\ api_response.content[i].name = "submit_answer" }

InputAt(i) == api_response.content[i].input

\* The answer r carries the text, the sources and the confidence of the
\* submit_answer input, 0.5 standing in for a missing confidence.
MatchesInput(r, input) ==
    /\ r # None
    /\ r.answer = JGet(input, "answer").str
    /\ r.sources = [i \in DOMAIN JGet(input, "sources").arr |->
                       ParseSource(JGet(input, "sources").arr[i])]
    /\ r.confidence = IF JGet(input, "confidence") = None
                      THEN DefaultConfidence ELSE JGet(input, "confidence").num

\* C2 as stated: every well-formed submit_answer input received in a
\* tool_use response ends the loop in that turn, and the query returns an
\* answer with that input's text, sources and confidence.
C2_Original ==
    \A i \in SubmitBlocks :
        (api_response.stop_reason = "tool_use" /\ WellFormedSubmit(InputAt(i))) =>
            /\ qpc = "loop" => MatchesInput(response, InputAt(i))
            /\ qpc = "done" => (IsOk(qresult) /\ MatchesInput(qresult.ok, InputAt(i)))

\* The latest response is a tool_use response whose first submit_answer
\* call has a well-formed input, and none of its tool calls failed.
FirstSubmitWellFormed ==
    /\ api_response.stop_reason = "tool_use"
    /\ SubmitBlocks # {}
    /\ \A i \in SubmitBlocks :
         (\A j \in SubmitBlocks : i <= j) => WellFormedSubmit(InputAt(i))
    /\ ~ToolFailed

FirstSubmitInput == InputAt(CHOOSE i \in SubmitBlocks : \A j \in SubmitBlocks : i <= j)

\* C2, amended: when the first submit_answer call of a tool_use response has
\* a well-formed input and every tool call of that response succeeds, the
\* loop ends in that turn (no further model call) and the query returns an
\* answer with that input's text, sources and confidence, 0.5 when the input
\* has no confidence.
C2_FirstSubmitAnswers ==
    /\ [](FirstSubmitWellFormed =>
            /\ MatchesInput(response, FirstSubmitInput)
            /\ qpc = "done" => qresult = Ok(response))
    /\ [][FirstSubmitWellFormed => (apiCalls' = apiCalls /\ response' = response)]_vars

C2_Witness ==
    /\ qpc = "done" /\ FirstSubmitWellFormed /\ IsOk(qresult)
    /\ turns = 2 /\ Len(api_response.content) = 2
    /\ JGet(FirstSubmitInput, "confidence") = None
    /\ qresult.ok.confidence = DefaultConfidence
    /\ Len(qresult.ok.sources) = 2

\* The text blocks of the latest response.
TextBlocks == { i \in DOMAIN api_response.content : api_response.content[i].type = "text" }
FirstText ==
    api_response.content[CHOOSE i \in TextBlocks : \A j \in TextBlocks : i <= j].text

OrdinaryCompletion == api_response.stop_reason \in {"end_turn", "none"}

UnexpectedReason == api_response.stop_reason \in StopReasons \ {"tool_use", "end_turn", "none"}

\* C16: a response with a stop reason other than tool_use and end_turn ends
\* the loop at that turn without an answer: no tool runs, no further model
\* call is made, and the query returns "No response generated", whatever is
\* left of the budget.
C16_UnexpectedStopEnds ==
    /\ [](UnexpectedReason => (qpc = "done" /\ qresult = NoResponseGenerated))
    /\ [][UnexpectedReason => apiCalls' = apiCalls]_vars
    /\ [][(~UnexpectedReason /\ UnexpectedReason') =>
            /\ apiCalls' = apiCalls + 1
            /\ cfgFile' = cfgFile /\ tool_results' = tool_results /\ messages' = messages]_vars

\* The first response already stops unexpectedly; it holds a tool call that
\* would have changed the configuration file, and two turns remain.
C16_Witness ==
    /\ UnexpectedReason /\ qpc = "done" /\ qresult = NoResponseGenerated
    /\ turns = 1 /\ max_turns = MaxTurns /\ apiCalls = 1
    /\ plugins_config_path # None /\ cfgFile = NoFile
    /\ \E i \in DOMAIN api_response.content :
         /\ api_response.content[i].type = "tool_use"
         /\ api_response.content[i].name = "update_plugin_config"
         /\ api_response.content[i].input = ToolInput("slack", EnableUpdate)

CallFailed == api_response.stop_reason = "error"

\* C17: a failing model call fails the query at once: the query returns an
\* error, which for a non-2xx status carries the status and the body; no
\* answer is returned even after turns that ran tools; the call is not
\* retried and no other call follows.
C17_ApiFailureFails ==
    /\ [](CallFailed =>
            /\ qpc = "done" /\ IsErr(qresult)
            /\ api_response.failure.kind = "status" =>
                  /\ qresult.err = "ClaudeApiError"
                  /\ qresult.msg = HttpMessage(api_response.failure.status,
                                               api_response.failure.body))
    /\ [][CallFailed => apiCalls' = apiCalls]_vars
    /\ [][(~CallFailed /\ CallFailed') => apiCalls' = apiCalls + 1]_vars

\* The third call answers 429 after two turns that ran tools.
C17_Witness ==
    /\ CallFailed /\ qpc = "done"
    /\ api_response.failure = StatusFailure("429", "overloaded")
    /\ qresult = Err("ClaudeApiError", "HTTP 429: overloaded")
    /\ turns = 3 /\ apiCalls = 3 /\ Len(tool_results) > 0 /\ Len(messages) = 5

(***************************************************************************)
(* QueryEngine::query (query_engine.rs 78-118): the adapter's query, then  *)
(* the post-hoc validation of the answer (validation.rs).  Thresholds are  *)
(* tenths, as confidences are.                                             *)
(***************************************************************************)
\* validate_sources_exist: knowledge_base_path.join(file).exists() for each
\* source in turn; `existing` is the set of files for which it is true.
RECURSIVE SourcesExistFrom(_, _, _)
SourcesExistFrom(sources, i, existing) ==
    IF i > Len(sources) THEN Ok("unit")
    ELSE IF sources[i].file \notin existing THEN Err("SourceNotFound", "file")
    ELSE SourcesExistFrom(sources, i + 1, existing)

validate_sources_exist(resp, existing) == SourcesExistFrom(resp.sources, 1, existing)

\* A variant of validate_confidence that rejects the floor itself.
ValidateConfidenceStrict(resp, threshold) ==
    IF resp.confidence <= threshold THEN Err("ConfidenceBelowThreshold", "got")
    ELSE Ok("unit")

validate_confidence(resp, threshold) ==
    IF resp.confidence < threshold THEN Err("ConfidenceBelowThreshold", "got")
    ELSE Ok("unit")

\* validate_response: the sources, then the confidence if a threshold is
\* given.
validate_response(resp, existing, confidence_threshold) ==
    IF IsErr(validate_sources_exist(resp, existing))
    THEN validate_sources_exist(resp, existing)
    ELSE IF confidence_threshold # None
    THEN validate_confidence(resp, confidence_threshold.some)
    ELSE Ok("unit")

\* is_valid_source: not empty, no "..", not absolute.  Nothing in the
\* validation above calls it.
is_valid_source(source) ==
    /\ source.file # <<>>
    /\ \A i \in DOMAIN source.file : source.file[i] # ".."
    /\ Head(source.file) # "/"

\* Option::or
OptionOr(a, b) == IF a # None THEN a ELSE b

\* query_engine.rs 106-117
CheckConfidence(resp, threshold) ==
    IF threshold # None /\ IsErr(validate_confidence(resp, threshold.some))
    THEN Err("QueryError", "Confidence below threshold")
    ELSE Ok(resp)

\* query_engine.rs 92-117: what the engine makes of the adapter's result.
EngineResult(adapter_result, options, config_threshold, existing) ==
    IF IsErr(adapter_result) THEN adapter_result
    ELSE IF options.validate_sources
            /\ IsErr(validate_sources_exist(adapter_result.ok, existing))
    THEN Err("QueryError", "Source not found")
    ELSE CheckConfidence(adapter_result.ok,
                         OptionOr(options.confidence_threshold, config_threshold))

MaxEngineTurns == 1  \* the turn budget of the adapter under the engine

SourceFiles == {DocsA, UpSecret}
OptionThresholds == {None, Some(9)}
ConfigThresholds == {None, Some(5), Some(10)}

\* The engine has been called and has called the adapter.
InitEngine ==
    /\ cfgFile = NoFile
    /\ max_turns \in 1..MaxEngineTurns
    /\ api_key \in BOOLEAN
    /\ plugins_config_path = None
    /\ turns = 0 /\ response = None /\ messages = <<>> /\ apiCalls = 0
    /\ qpc = "start" /\ qresult = None /\ api_response = NoApiResponse
    /\ tool_results = <<>> /\ scripted = TRUE
    /\ IdleUpdaters /\ IdleManager /\ IdleTasks /\ IdleWatcher /\ IdleTools /\ IdlePlugin
    /\ engPc = "running"
    /\ engOptions \in [confidence_threshold : OptionThresholds, validate_sources : BOOLEAN]
    /\ engConfigThreshold \in ConfigThresholds
    /\ engExisting \in SUBSET SourceFiles
    /\ engResult = None

\* The adapter has returned: `?`, then the validations.
EngineReturn ==
    /\ engPc = "running" /\ qpc = "done"
    /\ engPc' = "done"
    /\ engResult' = EngineResult(qresult, engOptions, engConfigThreshold, engExisting)
    /\ UNCHANGED <<engOptions, engConfigThreshold, engExisting>>
    /\ UNCHANGED <<qvars, uvars, mvars, lvars, wvars, tvars, pvars>>

NextEngine == NextQuery \/ EngineReturn

SpecEngine == InitEngine /\ [][NextEngine]_vars

\* The floor in force: the one of the query options, or else the one of the
\* navigator config.
HasFloor == engOptions.confidence_threshold # None \/ engConfigThreshold # None
Floor ==
    IF engOptions.confidence_threshold # None THEN engOptions.confidence_threshold.some
    ELSE engConfigThreshold.some

\* The engine got an answer from the adapter and returned.
Answered == engPc = "done" /\ IsOk(qresult)

\* The source check does not stand in the way.
SourcesPass ==
    \/ ~engOptions.validate_sources
    \/ \A i \in DOMAIN qresult.ok.sources : qresult.ok.sources[i].file \in engExisting

\* C13: with floor T and answer confidence c, the confidence validation
\* accepts if and only if c >= T, c = T included; an accepted answer is
\* returned as it is.
C13_AcceptIffAtLeast ==
    (Answered /\ HasFloor) =>
        /\ IsOk(validate_confidence(qresult.ok, Floor)) <=> qresult.ok.confidence >= Floor
        /\ SourcesPass =>
              /\ IsOk(engResult) <=> qresult.ok.confidence >= Floor
              /\ IsOk(engResult) => engResult = qresult

\* An answer whose confidence equals the floor of the options is accepted
\* although the navigator config asks for more.
C13_Witness ==
    /\ Answered /\ IsOk(engResult)
    /\ engOptions.confidence_threshold = Some(9) /\ engConfigThreshold = Some(10)
    /\ qresult.ok.confidence = 9

\* A file that contains ".." or starts with "/".
Suspicious(file) ==
    (\E i \in DOMAIN file : file[i] = "..") \/ (file # <<>> /\ Head(file) = "/")

CitesSuspicious(resp) == \E i \in DOMAIN resp.sources : Suspicious(resp.sources[i].file)

\* C14: source validation rejects every answer that cites a file containing
\* ".." or starting with "/", whether or not the file exists.
C14_SuspiciousRejected ==
    (Answered /\ CitesSuspicious(qresult.ok)) =>
        /\ IsErr(validate_response(qresult.ok, engExisting, None))
        /\ engOptions.validate_sources => IsErr(engResult)

\* The answer carries the question, the protocol version and a timestamp.
CarriesQuestion(r) ==
    r.query = Question /\ r.protocol_version = "1.0.0" /\ r.timestamp

\* C22: every answer a successful query returns, from the adapter and from
\* the engine, carries the original question in its query field, with the
\* protocol version and a timestamp.
C22_AnswerCarriesQuestion ==
    /\ (qpc = "done" /\ IsOk(qresult)) => CarriesQuestion(qresult.ok)
    /\ (engPc = "done" /\ IsOk(engResult)) => CarriesQuestion(engResult.ok)

\* The text fallback does carry the question through the engine.
C22_FallbackCarries ==
    /\ engPc = "done" /\ IsOk(engResult)
    /\ api_response.stop_reason = "end_turn"
    /\ CarriesQuestion(engResult.ok)

\* C23: every answer the adapter returns has a confidence within [0, 1],
\* whatever confidence the submit_answer input held.
C23_ConfidenceInRange ==
    (qpc = "done" /\ IsOk(qresult)) => qresult.ok.confidence \in 0..10

\* An input with confidence 0.9 is answered with confidence 0.9.
C23_InRangeKept ==
    /\ qpc = "done" /\ IsOk(qresult) /\ FirstSubmitWellFormed
    /\ JGet(FirstSubmitInput, "confidence") = JNum(9)
    /\ qresult.ok.confidence = 9

(***************************************************************************)
(* update_plugin_config calls racing on one configuration file.  The tool  *)
(* takes no lock: config_path.exists(), PluginConfig::from_file and        *)
(* PluginConfig::save are separate steps, and another call may run         *)
(* between any two of them.                                                *)
(***************************************************************************)
NumUpdaters == 2
Updaters == 1..NumUpdaters

ChannelsUpdate == JObj([k \in {"channels"} |-> JArr(<<JStr("dev")>>)])

UpdateInputs ==
    { ToolInput(p, u) : p \in {"slack", "github", "bogus"},
                        u \in {EnableUpdate, ChannelsUpdate} }

ConfigPath == Some("plugins.json")

\* What the calls leave alone: the query of SpecQuery is not running.
IdleQuery ==
    /\ max_turns = 0 /\ api_key = FALSE
    /\ turns = 0 /\ response = None /\ messages = <<>> /\ apiCalls = 0
    /\ qpc = "idle" /\ qresult = None /\ api_response = NoApiResponse
    /\ tool_results = <<>> /\ scripted = TRUE
    /\ IdleEngine

qrest == <<max_turns, api_key, turns, response, messages, apiCalls,
           qpc, qresult, api_response, tool_results, scripted, evars, wvars, tvars, pvars>>
qidle == <<plugins_config_path, qrest>>

InitConfig ==
    /\ IdleQuery
    /\ IdleWatcher
    /\ IdleTools
    /\ IdlePlugin
    /\ plugins_config_path = ConfigPath
    /\ cfgFile \in InitialFiles
    /\ initialFile = cfgFile
    /\ updInput \in [Updaters -> UpdateInputs]
    /\ updPc = [u \in Updaters |-> "start"]
    /\ updExists = [u \in Updaters |-> FALSE]
    /\ updConfig = [u \in Updaters |-> None]
    /\ updBefore = [u \in Updaters |-> None]
    /\ updResult = [u \in Updaters |-> None]
    /\ IdleManager
    /\ IdleTasks

\* tools.rs 170-190: the input is read and config_path.exists() is asked.
UpdCheck(u) ==
    /\ updPc[u] = "start"
    /\ LET bad == UpdateInputError(updInput[u], plugins_config_path)
       IN  IF bad # None
           THEN /\ updPc' = [updPc EXCEPT ![u] = "done"]
                /\ updResult' = [updResult EXCEPT ![u] = bad]
                /\ UNCHANGED updExists
           ELSE /\ updPc' = [updPc EXCEPT ![u] = "checked"]
                /\ updExists' = [updExists EXCEPT ![u] = FileExists(cfgFile)]
                /\ UNCHANGED updResult
    /\ UNCHANGED <<cfgFile, initialFile, updInput, updConfig, updBefore, qidle, mvars, lvars>>

\* tools.rs 190-229: the file is read and parsed (or the default taken),
\* and the configuration to save is computed.
UpdLoad(u) ==
    /\ updPc[u] = "checked"
    /\ LET loaded == IF updExists[u]
                     THEN (IF IsOk(from_file(cfgFile)) THEN from_file(cfgFile)
                           ELSE Err("ToolError", "Failed to load config"))
                     ELSE Ok(DefaultConfig)
           new == UpdatedConfig(loaded.ok, PluginField(updInput[u]).some,
                                JGet(updInput[u], "updates"))
       IN  IF IsErr(loaded) \/ IsErr(new)
           THEN /\ updPc' = [updPc EXCEPT ![u] = "done"]
                /\ updResult' = [updResult EXCEPT ![u] = IF IsErr(loaded) THEN loaded ELSE new]
                /\ UNCHANGED <<updConfig, updBefore>>
           ELSE /\ updPc' = [updPc EXCEPT ![u] = "loaded"]
                /\ updConfig' = [updConfig EXCEPT ![u] = new.ok]
                /\ updBefore' = [updBefore EXCEPT ![u] = loaded.ok]
                /\ UNCHANGED updResult
    /\ UNCHANGED <<cfgFile, initialFile, updInput, updExists, qidle, mvars, lvars>>

\* tools.rs 232-240: config.save rewrites the whole file.
UpdSave(u) ==
    /\ updPc[u] = "loaded"
    /\ cfgFile' = ConfigToValue(updConfig[u])
    /\ updPc' = [updPc EXCEPT ![u] = "done"]
    /\ updResult' = [updResult EXCEPT ![u] = UpdateSuccess(updInput[u])]
    /\ UNCHANGED <<initialFile, updInput, updExists, updConfig, updBefore, qidle, mvars, lvars>>

NextConfig == \E u \in Updaters : UpdCheck(u) \/ UpdLoad(u) \/ UpdSave(u)

SpecConfig == InitConfig /\ [][NextConfig]_vars

\* The sub-record a call found before it merged: the loaded one or the default.
SubBefore(u) ==
    LET kind == PluginField(updInput[u]).some
    IN  IF updBefore[u].subs[kind] = None THEN DefaultSub(kind) ELSE updBefore[u].subs[kind]

Succeeded(u) == updPc[u] = "done" /\ IsOk(updResult[u])

\* The file still holds what call u saved.
HoldsSaveOf(u) == Succeeded(u) /\ cfgFile = ConfigToValue(updConfig[u])

\* C3: after update_plugin_config(plugin, updates) succeeds, the persisted
\* sub-record of that plugin has every key of updates set to the value given
\* and every other key equal to its value before the call.
C3_ShallowMerge ==
    \A u \in Updaters : HoldsSaveOf(u) =>
        LET kind == PluginField(updInput[u]).some
            updates == JGet(updInput[u], "updates").obj
            before == SubToValue(kind, SubBefore(u)).obj
            after == JGet(cfgFile, kind).obj
        IN  /\ \A k \in DOMAIN updates : k \in DOMAIN after /\ after[k] = updates[k]
            /\ \A k \in (DOMAIN before) \ (DOMAIN updates) :
                   k \in DOMAIN after /\ after[k] = before[k]

\* The scenario of C3 has run: {enabled:false, channels:["general"]} was
\* persisted, {enabled:true} was asked for slack, and the call succeeded.
C3_Scenario ==
    \E u \in Updaters :
        /\ HoldsSaveOf(u)
        /\ initialFile = FileSlack
        /\ updInput[u] = ToolInput("slack", EnableUpdate)
        /\ updBefore[u] = from_file(FileSlack).ok

\* update_plugin_config calls run one after the other, in the given order.
RECURSIVE Serial(_, _)
Serial(order, file) ==
    IF order = <<>> THEN file
    ELSE Serial(Tail(order),
                update_plugin_config(updInput[Head(order)], plugins_config_path, file).file)

Orders == { o \in [1..NumUpdaters -> Updaters] : \A i, j \in 1..NumUpdaters : o[i] = o[j] => i = j }

AllReturned == \A u \in Updaters : updPc[u] = "done"

\* C8: concurrent update_plugin_config calls against one file lose no data:
\* once all have returned, the file equals the result of running them in
\* some serial order.
C8_SerialOutcome ==
    AllReturned => \E o \in Orders : cfgFile = Serial(o, initialFile)

\* Two calls for different plugins both succeeded.
C8_BothSucceeded ==
    /\ \A u \in Updaters : Succeeded(u)
    /\ PluginField(updInput[1]) # PluginField(updInput[2])

(***************************************************************************)
(* The plugins (autonav-plugins).  A plugin instance is a record of the    *)
(* fields of SlackPlugin, GitHubPlugin and FileWatcherPlugin; "custom" is  *)
(* any other implementation of the Plugin trait, whose methods may return  *)
(* Ok or Err as they please.  A path is the sequence of the pieces of its  *)
(* text, so that a text prefix is a sequence prefix.                       *)
(***************************************************************************)
PluginNames == {"slack", "github", "file_watcher", "custom"}

\* SlackPlugin::new, GitHubPlugin::new, FileWatcherPlugin::new: only the
\* Slack plugin is born with a client (reqwest Client::new()).
NewPlugin(kind, config) ==
    [kind |-> kind, config |-> config, initialized |-> FALSE,
     client |-> (kind = "slack"), bot_user_id |-> FALSE,
     watcher |-> None, events |-> <<>>,
     include_patterns |-> None, ignore_patterns |-> None]

is_enabled(p) == p.config["enabled"].bool

IsPrefix(a, b) == Len(a) <= Len(b) /\ SubSeq(b, 1, Len(a)) = a

Home == <<"/home/u">>
tilde(path) == IF path # <<>> /\ Head(path) = "~" THEN Home \o Tail(path) ELSE path

SENSITIVE_DIRS ==
    { <<"/etc">>, <<"/root">>, <<"/var/log">>, <<"~", "/.ssh">>, <<"~", "/.aws">>,
      <<"~", "/.gnupg">>, <<"~", "/.config">>, <<"/proc">>, <<"/sys">> }

\* A variant of is_sensitive_path that compares without expanding "~".
IsSensitiveUnexpanded(path) ==
    \E sensitive \in SENSITIVE_DIRS : IsPrefix(sensitive, path)

is_sensitive_path(path) ==
    \E sensitive \in SENSITIVE_DIRS : IsPrefix(tilde(sensitive), tilde(path))

\* A glob "*<suffix>" matches every path whose text ends with the suffix.
GlobMatch(pattern, path) ==
    /\ pattern # <<>> /\ Head(pattern) = "*"
    /\ Len(Tail(pattern)) <= Len(path)
    /\ SubSeq(path, Len(path) - Len(Tail(pattern)) + 1, Len(path)) = Tail(pattern)

is_match(globs, path) == \E i \in DOMAIN globs : GlobMatch(globs[i].str, path)

\* A variant of should_include that asks the include set before the ignore
\* set.
ShouldIncludeIncludeFirst(p, path) ==
    IF p.include_patterns # None /\ is_match(p.include_patterns.some, path) THEN TRUE
    ELSE IF p.ignore_patterns # None /\ is_match(p.ignore_patterns.some, path) THEN FALSE
    ELSE p.include_patterns = None

should_include(p, path) ==
    IF p.ignore_patterns # None /\ is_match(p.ignore_patterns.some, path) THEN FALSE
    ELSE IF p.include_patterns = None THEN TRUE
    ELSE is_match(p.include_patterns.some, path)

\* build_globset: every pattern drawn here is a valid glob.
build_globset(patterns) == Some(patterns)

\* file_watcher.rs 143-150: the glob sets are built from non-empty lists
\* only, once a safe path was found.
BuildPatterns(p) ==
    [p EXCEPT
       !.include_patterns = IF p.config["patterns"].arr # <<>>
                            THEN build_globset(p.config["patterns"].arr) ELSE @,
       !.ignore_patterns = IF p.config["ignorePatterns"].arr # <<>>
                           THEN build_globset(p.config["ignorePatterns"].arr) ELSE @]

\* initialize: [plugin, result].  e is what the provider or the file system
\* answers: "ok", "auth_failed" (Slack, GitHub), "create_failed",
\* "watch_failed", "missing" (file watcher), "failed" (custom).
slack_initialize(p, e) ==
    IF ~is_enabled(p) THEN [plugin |-> p, result |-> Ok("unit")]
    ELSE IF e # "ok"
    THEN [plugin |-> p, result |-> Err("InitializationFailed", "Auth test failed")]
    ELSE [plugin |-> [p EXCEPT !.bot_user_id = TRUE, !.initialized = TRUE],
          result |-> Ok("unit")]

github_initialize(p, e) ==
    IF ~is_enabled(p) THEN [plugin |-> p, result |-> Ok("unit")]
    ELSE IF e # "ok"
    THEN [plugin |-> p, result |-> Err("AuthError", "Failed to authenticate")]
    ELSE [plugin |-> [p EXCEPT !.client = TRUE, !.initialized = TRUE],
          result |-> Ok("unit")]

NotSensitive(js) == ~is_sensitive_path(js.str)

\* file_watcher.rs 180-185: the path handed to watcher.watch is
\* PathBuf::from(shellexpand::tilde(path)).
WatchedPaths(safe_paths) == [i \in DOMAIN safe_paths |-> tilde(safe_paths[i].str)]

file_watcher_initialize(p, e) ==
    LET safe_paths == SelectSeq(p.config["paths"].arr, NotSensitive)
    IN  IF ~is_enabled(p) THEN [plugin |-> p, result |-> Ok("unit")]
        ELSE IF safe_paths = <<>>
        THEN [plugin |-> p, result |-> Err("ConfigError", "No safe paths to watch")]
        ELSE IF e = "create_failed"
        THEN [plugin |-> BuildPatterns(p),
              result |-> Err("InitializationFailed", "Failed to create watcher")]
        ELSE IF e = "watch_failed"
        THEN [plugin |-> [BuildPatterns(p) EXCEPT !.watcher = Some(<<>>)],
              result |-> Err("InitializationFailed", "Failed to watch")]
        ELSE [plugin |-> [BuildPatterns(p) EXCEPT
                            !.watcher = Some(IF e = "missing" THEN <<>>
                                             ELSE WatchedPaths(safe_paths)),
                            !.initialized = TRUE],
              result |-> Ok("unit")]

custom_initialize(p, e) ==
    IF e # "ok" THEN [plugin |-> p, result |-> Err("ConfigError", "custom")]
    ELSE [plugin |-> [p EXCEPT !.initialized = TRUE], result |-> Ok("unit")]

initialize(p, e) ==
    CASE p.kind = "slack" -> slack_initialize(p, e["slack"])
      [] p.kind = "github" -> github_initialize(p, e["github"])
      [] p.kind = "file_watcher" -> file_watcher_initialize(p, e["file_watcher"])
      [] OTHER -> custom_initialize(p, e["custom"])

\* shutdown: [plugin, result].  The built-in ones always return Ok; r is
\* what a custom one returns.
slack_shutdown(p) == [p EXCEPT !.initialized = FALSE]
github_shutdown(p) == [p EXCEPT !.client = FALSE, !.initialized = FALSE]
file_watcher_shutdown(p) == [p EXCEPT !.watcher = None, !.events = <<>>, !.initialized = FALSE]

plugin_shutdown(p, r) ==
    CASE p.kind = "slack" -> [plugin |-> slack_shutdown(p), result |-> Ok("unit")]
      [] p.kind = "github" -> [plugin |-> github_shutdown(p), result |-> Ok("unit")]
      [] p.kind = "file_watcher" ->
           [plugin |-> file_watcher_shutdown(p), result |-> Ok("unit")]
      [] OTHER -> IF r = "ok" THEN [plugin |-> [p EXCEPT !.initialized = FALSE],
                                     result |-> Ok("unit")]
                  ELSE [plugin |-> p, result |-> Err("ActionFailed", "custom")]

\* What listen drains from the file watcher's buffer: every path of every
\* pending event in turn; a path seen before or filtered out is skipped, the
\* path is marked as seen, and only then an event kind other than create,
\* modify or remove is dropped.
RECURSIVE EventPaths(_)
EventPaths(pending) ==
    IF pending = <<>> THEN <<>>
    ELSE [i \in DOMAIN Head(pending).paths |->
             [kind |-> Head(pending).kind, path |-> Head(pending).paths[i]]]
         \o EventPaths(Tail(pending))

PluginEvent(type, key) == [type |-> type, key |-> key]

\* A variant of DrainPaths that does not look at seen_paths.
RECURSIVE DrainPathsNoDedup(_, _, _, _)
DrainPathsNoDedup(p, pairs, seen_paths, result_events) ==
    IF pairs = <<>> THEN result_events
    ELSE IF ~should_include(p, Head(pairs).path)
    THEN DrainPathsNoDedup(p, Tail(pairs), seen_paths, result_events)
    ELSE DrainPathsNoDedup(p, Tail(pairs), seen_paths,
           IF Head(pairs).kind = "create"
           THEN Append(result_events, PluginEvent("file_added", Head(pairs).path))
           ELSE IF Head(pairs).kind = "modify"
           THEN Append(result_events, PluginEvent("file_changed", Head(pairs).path))
           ELSE IF Head(pairs).kind = "remove"
           THEN Append(result_events, PluginEvent("file_removed", Head(pairs).path))
           ELSE result_events)

RECURSIVE DrainPaths(_, _, _, _)
DrainPaths(p, pairs, seen_paths, result_events) ==
    IF pairs = <<>> THEN result_events
    ELSE LET kind == Head(pairs).kind
             path == Head(pairs).path
         IN  IF path \in seen_paths \/ ~should_include(p, path)
             THEN DrainPaths(p, Tail(pairs), seen_paths, result_events)
             ELSE DrainPaths(p, Tail(pairs), seen_paths \cup {path},
                    IF kind = "create"
                    THEN Append(result_events, PluginEvent("file_added", path))
                    ELSE IF kind = "modify"
                    THEN Append(result_events, PluginEvent("file_changed", path))
                    ELSE IF kind = "remove"
                    THEN Append(result_events, PluginEvent("file_removed", path))
                    ELSE result_events)

\* listen: [plugin, result].  r is what the remote side answers: "event",
\* "none" or "failed".
slack_listen(p) == [plugin |-> p, result |-> Ok(<<>>)]

github_listen(p, r) ==
    IF ~p.initialized THEN [plugin |-> p, result |-> Ok(<<>>)]
    ELSE IF ~p.client
    THEN [plugin |-> p, result |-> Err("InitializationFailed", "Client not initialized")]
    ELSE IF p.config["watchIssues"].bool /\ p.config["owner"].str # "" /\ r = "event"
    THEN [plugin |-> p, result |-> Ok(<<PluginEvent("git_hub_issue", <<"1">>)>>)]
    ELSE [plugin |-> p, result |-> Ok(<<>>)]

file_watcher_listen(p) ==
    [plugin |-> [p EXCEPT !.events = <<>>],
     result |-> Ok(DrainPaths(p, EventPaths(p.events), {}, <<>>))]

custom_listen(p, r) ==
    IF r = "failed" THEN [plugin |-> p, result |-> Err("ActionFailed", "custom")]
    ELSE IF r = "event"
    THEN [plugin |-> p, result |-> Ok(<<PluginEvent("slack_message", <<"ts1">>),
                                         PluginEvent("slack_message", <<"ts2">>)>>)]
    ELSE [plugin |-> p, result |-> Ok(<<>>)]

listen(p, r) ==
    CASE p.kind = "slack" -> slack_listen(p)
      [] p.kind = "github" -> github_listen(p, r)
      [] p.kind = "file_watcher" -> file_watcher_listen(p)
      [] OTHER -> custom_listen(p, r)

\* The tags of the PluginAction variants, and PluginAction::plugin_name.
SlackActions == {"slack_send_message", "slack_add_reaction", "slack_update_message"}
GitHubActions ==
    {"git_hub_create_issue", "git_hub_comment_issue", "git_hub_close_issue",
     "git_hub_create_pr", "git_hub_comment_pr", "git_hub_merge_pr", "git_hub_add_label"}
FileWatcherActions == {"file_watcher_refresh", "file_watcher_clear"}
PluginActions == SlackActions \cup GitHubActions \cup FileWatcherActions

plugin_name(action) ==
    IF action \in SlackActions THEN "slack"
    ELSE IF action \in GitHubActions THEN "github"
    ELSE "file_watcher"

\* The tags of the PluginEvent variants, and PluginEvent::plugin_name.
SlackEvents == {"slack_message", "slack_mention", "slack_reaction"}
GitHubEvents == {"git_hub_issue", "git_hub_pull_request", "git_hub_comment"}
FileWatcherEvents == {"file_added", "file_changed", "file_removed"}
PluginEvents == SlackEvents \cup GitHubEvents \cup FileWatcherEvents

event_plugin_name(type) ==
    IF type \in SlackEvents THEN "slack"
    ELSE IF type \in GitHubEvents THEN "github"
    ELSE "file_watcher"

\* Plugin::name of the built-in plugins.
Name(p) == p.kind

Success == Ok([success |-> TRUE])

\* What a remote call made by execute comes to: r is "ok", "failed" or
\* "ratelimited".
RemoteCall(r) ==
    IF r = "ok" THEN Success
    ELSE IF r = "ratelimited" THEN Err("RateLimited", "")
    ELSE Err("ActionFailed", "remote")

\* A variant of slack_execute that sends whatever it is given.
SlackExecuteAnything(p, action, r) == [plugin |-> p, result |-> RemoteCall(r), called |-> TRUE]

\* execute: [plugin, result, called]; called tells whether a request went
\* out to the provider.
slack_execute(p, action, r) ==
    IF action \in SlackActions THEN [plugin |-> p, result |-> RemoteCall(r), called |-> TRUE]
    ELSE [plugin |-> p, called |-> FALSE,
          result |-> Err("ActionFailed", "Action not supported by Slack plugin")]

github_execute(p, action, r) ==
    IF ~p.client
    THEN [plugin |-> p, called |-> FALSE,
          result |-> Err("InitializationFailed", "Client not initialized")]
    ELSE IF action \in GitHubActions
    THEN [plugin |-> p, called |-> TRUE,
          result |-> IF r = "ok" THEN Success ELSE Err("ActionFailed", "remote")]
    ELSE [plugin |-> p, called |-> FALSE,
          result |-> Err("ActionFailed", "Action not supported by GitHub plugin")]

file_watcher_execute(p, action, e) ==
    IF action = "file_watcher_refresh"
    THEN LET again == file_watcher_initialize(file_watcher_shutdown(p), e)
         IN  [plugin |-> again.plugin, called |-> FALSE,
              result |-> IF IsErr(again.result) THEN again.result ELSE Success]
    ELSE IF action = "file_watcher_clear"
    THEN [plugin |-> [p EXCEPT !.events = <<>>], result |-> Success, called |-> FALSE]
    ELSE [plugin |-> p, called |-> FALSE,
          result |-> Err("ActionFailed", "Action not supported by FileWatcher plugin")]

plugin_execute(p, action, e, r) ==
    CASE p.kind = "slack" -> slack_execute(p, action, r)
      [] p.kind = "github" -> github_execute(p, action, r)
      [] p.kind = "file_watcher" -> file_watcher_execute(p, action, e["file_watcher"])
      [] OTHER -> [plugin |-> p, result |-> RemoteCall(r), called |-> TRUE]

\* PluginHealthStatus::healthy and ::unhealthy, without the time of the check.
healthy == [healthy |-> TRUE, message |-> None]
unhealthy(message) == [healthy |-> FALSE, message |-> Some(message)]

\* health_check: the status; it takes &self.  r is what the remote side
\* answers the check: "ok" or "failed".
slack_health_check(p, r) ==
    IF ~is_enabled(p) THEN unhealthy("Plugin is disabled")
    ELSE IF ~p.initialized THEN unhealthy("Plugin not initialized")
    ELSE IF r = "ok" THEN healthy
    ELSE unhealthy("Health check failed")

github_health_check(p, r) ==
    IF ~is_enabled(p) THEN unhealthy("Plugin is disabled")
    ELSE IF ~p.initialized THEN unhealthy("Plugin not initialized")
    ELSE IF ~p.client THEN unhealthy("Client error")
    ELSE IF r = "ok" THEN healthy
    ELSE unhealthy("API check failed")

file_watcher_health_check(p) ==
    IF ~is_enabled(p) THEN unhealthy("Plugin is disabled")
    ELSE IF ~p.initialized THEN unhealthy("Plugin not initialized")
    ELSE IF p.watcher = None THEN unhealthy("Watcher not running")
    ELSE healthy

health_check(p, r) ==
    CASE p.kind = "slack" -> slack_health_check(p, r)
      [] p.kind = "github" -> github_health_check(p, r)
      [] p.kind = "file_watcher" -> file_watcher_health_check(p)
      [] OTHER -> IF r = "ok" THEN healthy ELSE unhealthy("custom")

(***************************************************************************)
(* PluginManager (manager.rs).  Each operation is an operator from the     *)
(* registry to [plugins, result, calls]: the registry afterwards, what the *)
(* operation returned, and the bag of plugin methods it called.  A HashMap *)
(* is visited in an order nobody chose: the operators are handed the names *)
(* in the order of the visit.  Plugins share no state, so every order      *)
(* gives the same registry and calls; the order shows in the events        *)
(* listen_all returns.                                                     *)
(***************************************************************************)
RECURSIVE SeqToBag(_)
SeqToBag(seq) ==
    IF seq = <<>> THEN EmptyBag ELSE SetToBag({Head(seq)}) (+) SeqToBag(Tail(seq))

Call(name, method, result) ==
    SetToBag({[plugin |-> name, method |-> method, result |-> result]})

Insert(reg, name, plugin) ==
    [n \in DOMAIN reg \cup {name} |-> IF n = name THEN plugin ELSE reg[n]]

RegisterInsertsAnyway(reg, plugin, e) ==
    LET name == plugin.kind
        init == initialize(plugin, e)
    IN  [plugins |-> Insert(reg, name, init.plugin),
         result |-> IF IsErr(init.result) THEN Err("InitializationFailed", name)
                    ELSE Ok("unit"),
         calls |-> Call(name, "initialize", init.result)]

register(reg, plugin, e) ==
    LET name == plugin.kind
        init == initialize(plugin, e)
    IN  IF IsErr(init.result)
        THEN [plugins |-> reg, result |-> Err("InitializationFailed", name),
              calls |-> Call(name, "initialize", init.result)]
        ELSE [plugins |-> Insert(reg, name, init.plugin), result |-> Ok("unit"),
              calls |-> Call(name, "initialize", init.result)]

\* The built-in kinds load_from_config registers, in its order.
BuiltIn == <<"slack", "github", "file_watcher">>

RECURSIVE LoadKinds(_, _, _, _, _)
LoadKinds(reg, config, kinds, e, calls_) ==
    IF kinds = <<>> THEN [plugins |-> reg, result |-> Ok("unit"), calls |-> calls_]
    ELSE LET kind == Head(kinds)
             sub == config.subs[kind]
         IN  IF sub = None \/ ~sub["enabled"].bool
             THEN LoadKinds(reg, config, Tail(kinds), e, calls_)
             ELSE LET r == register(reg, NewPlugin(kind, sub), e)
                  IN  IF IsErr(r.result)
                      THEN [plugins |-> r.plugins, result |-> r.result,
                            calls |-> calls_ (+) r.calls]
                      ELSE LoadKinds(r.plugins, config, Tail(kinds), e, calls_ (+) r.calls)

\* A variant of load_from_config that gives up on a file it cannot read.
LoadFailsOnBadFile(reg, file, e) ==
    IF IsOk(from_file(file)) THEN LoadKinds(reg, from_file(file).ok, BuiltIn, e, EmptyBag)
    ELSE [plugins |-> reg, result |-> Err("ConfigError", "load"), calls |-> EmptyBag]

load_from_config(reg, file, e) ==
    LET config == IF IsOk(from_file(file)) THEN from_file(file).ok ELSE DefaultConfig
    IN  LoadKinds(reg, config, BuiltIn, e, EmptyBag)

RECURSIVE ListenAllStopsAtError(_, _, _, _, _)
ListenAllStopsAtError(reg, order, r, all_events, calls_) ==
    IF order = <<>> THEN [plugins |-> reg, result |-> all_events, calls |-> calls_]
    ELSE LET name == Head(order)
         IN  IF ~is_enabled(reg[name])
             THEN ListenAllStopsAtError(reg, Tail(order), r, all_events, calls_)
             ELSE LET got == listen(reg[name], r[name])
                      reg2 == [reg EXCEPT ![name] = got.plugin]
                      calls2 == calls_ (+) Call(name, "listen", got.result)
                  IN  IF IsOk(got.result)
                      THEN ListenAllStopsAtError(reg2, Tail(order), r,
                                                 all_events \o got.result.ok, calls2)
                      ELSE [plugins |-> reg2, result |-> all_events, calls |-> calls2]

\* A variant of listen_all that polls the disabled plugins as well.
RECURSIVE ListenAllPollsDisabled(_, _, _, _, _)
ListenAllPollsDisabled(reg, order, r, all_events, calls_) ==
    IF order = <<>> THEN [plugins |-> reg, result |-> all_events, calls |-> calls_]
    ELSE LET name == Head(order)
             got == listen(reg[name], r[name])
         IN  ListenAllPollsDisabled([reg EXCEPT ![name] = got.plugin], Tail(order), r,
                                    IF IsOk(got.result) THEN all_events \o got.result.ok
                                    ELSE all_events,
                                    calls_ (+) Call(name, "listen", got.result))

RECURSIVE listen_all(_, _, _, _, _)
listen_all(reg, order, r, all_events, calls_) ==
    IF order = <<>> THEN [plugins |-> reg, result |-> all_events, calls |-> calls_]
    ELSE LET name == Head(order)
         IN  IF ~is_enabled(reg[name])
             THEN listen_all(reg, Tail(order), r, all_events, calls_)
             ELSE LET got == listen(reg[name], r[name])
                      reg2 == [reg EXCEPT ![name] = got.plugin]
                      calls2 == calls_ (+) Call(name, "listen", got.result)
                  IN  listen_all(reg2, Tail(order), r,
                                 IF IsOk(got.result) THEN all_events \o got.result.ok
                                 ELSE all_events,
                                 calls2)

ExecuteSkipsEnabledCheck(reg, action, e, r) ==
    LET name == plugin_name(action)
    IN  IF name \notin DOMAIN reg
        THEN [plugins |-> reg, result |-> Err("NotFound", name), calls |-> EmptyBag]
        ELSE LET got == plugin_execute(reg[name], action, e, r)
             IN  [plugins |-> [reg EXCEPT ![name] = got.plugin], result |-> got.result,
                  calls |-> Call(name, "execute", got.result)]

execute(reg, action, e, r) ==
    LET name == plugin_name(action)
    IN  IF name \notin DOMAIN reg
        THEN [plugins |-> reg, result |-> Err("NotFound", name), calls |-> EmptyBag]
        ELSE IF ~is_enabled(reg[name])
        THEN [plugins |-> reg, result |-> Err("NotEnabled", name), calls |-> EmptyBag]
        ELSE LET got == plugin_execute(reg[name], action, e, r)
             IN  [plugins |-> [reg EXCEPT ![name] = got.plugin], result |-> got.result,
                  calls |-> Call(name, "execute", got.result)]

\* A variant of shutdown that returns at the first plugin whose shutdown
\* fails.
RECURSIVE ShutdownStopsAtError(_, _, _, _)
ShutdownStopsAtError(reg, order, r, calls_) ==
    IF order = <<>> THEN [plugins |-> reg, result |-> Ok("unit"), calls |-> calls_]
    ELSE LET name == Head(order)
             got == plugin_shutdown(reg[name], r)
         IN  IF IsErr(got.result)
             THEN [plugins |-> reg, result |-> Ok("unit"),
                   calls |-> calls_ (+) Call(name, "shutdown", got.result)]
             ELSE ShutdownStopsAtError([reg EXCEPT ![name] = got.plugin], Tail(order), r,
                                       calls_ (+) Call(name, "shutdown", got.result))

\* An error of a plugin's shutdown is logged.
RECURSIVE shutdown(_, _, _, _)
shutdown(reg, order, r, calls_) ==
    IF order = <<>> THEN [plugins |-> reg, result |-> Ok("unit"), calls |-> calls_]
    ELSE LET name == Head(order)
             got == plugin_shutdown(reg[name], r)
         IN  shutdown([reg EXCEPT ![name] = got.plugin], Tail(order), r,
                      calls_ (+) Call(name, "shutdown", got.result))

\* A variant of health_check_all that leaves out the disabled plugins.
RECURSIVE HealthCheckEnabledOnly(_, _, _, _, _)
HealthCheckEnabledOnly(reg, order, r, statuses, calls_) ==
    IF order = <<>> THEN [plugins |-> reg, result |-> statuses, calls |-> calls_]
    ELSE LET name == Head(order)
         IN  IF ~is_enabled(reg[name])
             THEN HealthCheckEnabledOnly(reg, Tail(order), r, statuses, calls_)
             ELSE HealthCheckEnabledOnly(reg, Tail(order), r,
                      Insert(statuses, name, health_check(reg[name], r[name])),
                      calls_ (+) Call(name, "health_check", health_check(reg[name], r[name])))

\* health_check_all: statuses is the HashMap it fills.
RECURSIVE health_check_all(_, _, _, _, _)
health_check_all(reg, order, r, statuses, calls_) ==
    IF order = <<>> THEN [plugins |-> reg, result |-> statuses, calls |-> calls_]
    ELSE LET name == Head(order)
             status == health_check(reg[name], r[name])
         IN  health_check_all(reg, Tail(order), r, Insert(statuses, name, status),
                              calls_ (+) Call(name, "health_check", status))

(***************************************************************************)
(* The manager's operations, run one at a time by a caller.  What the      *)
(* providers and the file system answer is an input of each operation: a   *)
(* load finds the configuration file that was put there before it.  A      *)
(* manager is either loaded from the file or filled by hand.               *)
(***************************************************************************)
MaxPending == 1      \* notify events waiting in the file watcher's buffer

Docs == <<"docs">>
EtcApp == <<"/etc", "/app">>
FileA == <<"docs", "/a", ".md">>
FileB == <<"docs", "/b", ".tmp">>

RawEvents ==
    { [kind |-> "create", paths |-> <<FileA>>],
      [kind |-> "modify", paths |-> <<FileA, FileB>>] }

Enabled(kind, on) == [DefaultSub(kind) EXCEPT !["enabled"] = JBool(on)]

GitHubWatching ==
    [Enabled("github", TRUE) EXCEPT !["owner"] = JStr("o"), !["watchIssues"] = JBool(TRUE)]

Watching(paths) ==
    [Enabled("file_watcher", TRUE) EXCEPT
        !["paths"] = JArr(paths),
        !["patterns"] = JArr(<<JStr(<<"*", ".md">>)>>),
        !["ignorePatterns"] = JArr(<<JStr(<<"*", ".tmp">>)>>)]

\* The plugins a caller may hand to register.
Registrable ==
    { NewPlugin("slack", Enabled("slack", TRUE)) }
    \cup { NewPlugin("github", GitHubWatching), NewPlugin("github", Enabled("github", FALSE)) }
    \cup { NewPlugin("file_watcher", Watching(<<JStr(EtcApp), JStr(Docs)>>)),
           NewPlugin("file_watcher", Watching(<<JStr(EtcApp)>>)) }
    \cup { NewPlugin("custom", [k \in {"enabled"} |-> JBool(TRUE)]) }

FileOf(subs) == JObj([k \in DOMAIN subs |-> SubToValue(k, subs[k])])

\* A file that is JSON but no PluginConfig.
WrongType == JObj([k \in {"slack"} |-> JStr("oops")])

ManagerFiles ==
    { NoFile, Garbage, WrongType,
      FileOf([slack |-> Enabled("slack", TRUE), github |-> Enabled("github", FALSE),
              file_watcher |-> Watching(<<JStr(EtcApp), JStr(Docs)>>)]) }

Envs ==
    { e \in [PluginNames -> {"ok", "auth_failed", "create_failed", "watch_failed",
                             "missing", "failed"}] :
        /\ e["slack"] \in {"ok", "auth_failed"}
        /\ e["github"] \in {"ok", "auth_failed"}
        /\ e["file_watcher"] \in {"ok", "create_failed", "watch_failed", "missing"}
        /\ e["custom"] \in {"ok", "failed"} }

\* What the remote side answers the plugins that ask it during listen; a
\* poll of GitHub that fails is drawn where the plugin is driven alone.
ListenAnswers(reg) ==
    { r \in [PluginNames -> {"event", "none", "failed"}] :
        /\ \A k \in PluginNames \ ({"github", "custom"} \cap DOMAIN reg) : r[k] = "none"
        /\ r["github"] # "failed" }

AllOk == [k \in PluginNames |-> "ok"]

\* The actions the manager is handed here.
ManagerActions ==
    {"slack_send_message", "git_hub_create_issue", "file_watcher_refresh", "file_watcher_clear"}

\* The answers that differ from AllOk for the given kinds only.
EnvFor(kinds) == { e \in Envs : \A k \in PluginNames \ kinds : e[k] = "ok" }

\* The plugin whose initialize asks its provider or the file system: a
\* disabled one, or a file watcher without a safe path, returns before.
Asking(plugin) ==
    IF ~is_enabled(plugin) THEN {}
    ELSE IF plugin.kind = "file_watcher"
            /\ SelectSeq(plugin.config["paths"].arr, NotSensitive) = <<>>
    THEN {}
    ELSE {plugin.kind}

\* The plugin whose initialize an action runs again.
Refreshed(action) == IF action = "file_watcher_refresh" THEN {"file_watcher"} ELSE {}

\* What the remote side may answer a call made by execute.
RemoteAnswers(action) ==
    IF plugin_name(action) = "file_watcher" THEN {"ok"} ELSE {"ok", "failed", "ratelimited"}

Registered(n) == n \in DOMAIN plugins
Names == SelectSeq(<<"github", "custom", "file_watcher", "slack">>, Registered)

Reversed(seq) == [i \in DOMAIN seq |-> seq[Len(seq) + 1 - i]]

\* The orders in which the registry is visited here: one and its reverse.
VisitOrders == {Names, Reversed(Names)}

Op(op, arg) == [op |-> op, arg |-> arg]

InitManager ==
    /\ IdleQuery
    /\ IdleWatcher
    /\ IdleTools
    /\ IdlePlugin
    /\ plugins_config_path = None
    /\ cfgFile = NoFile
    /\ IdleUpdaters
    /\ IdleTasks
    /\ plugins = <<>> /\ config_path = None /\ plugin_manager = FALSE
    /\ env = AllOk
    /\ lastOp = Op("none", "") /\ mgrResult = None /\ calls = EmptyBag

mrest == <<qrest, uvars, lvars>>

\* PluginManager::new() in the hands of a caller.
ManagerNew ==
    /\ ~plugin_manager /\ plugins_config_path = None
    /\ plugin_manager' = TRUE
    /\ plugins' = <<>> /\ config_path' = None
    /\ lastOp' = Op("new", "") /\ mgrResult' = None /\ calls' = EmptyBag
    /\ env' = AllOk
    /\ UNCHANGED <<cfgFile, plugins_config_path, mrest>>

\* navigator.rs 81-97: a manager that fails to load is dropped.
NavigatorLoad ==
    /\ ~plugin_manager /\ plugins_config_path = None
    /\ \E configured \in BOOLEAN, file \in ManagerFiles,
          e \in EnvFor({"slack", "github", "file_watcher"}) :
         LET loaded == load_from_config(<<>>, file, e)
         IN  /\ cfgFile' = file
             /\ plugins_config_path' = IF configured THEN ConfigPath ELSE None
             /\ env' = IF configured /\ FileExists(file) THEN e ELSE AllOk
             /\ lastOp' = Op("navigator_load", "")
             /\ IF configured /\ FileExists(file)
                THEN /\ mgrResult' = loaded.result
                     /\ calls' = loaded.calls
                     /\ plugin_manager' = IsOk(loaded.result)
                     /\ plugins' = IF IsOk(loaded.result) THEN loaded.plugins ELSE <<>>
                     /\ config_path' = IF IsOk(loaded.result) THEN ConfigPath ELSE None
                ELSE /\ mgrResult' = None /\ calls' = EmptyBag
                     /\ UNCHANGED <<plugin_manager, plugins, config_path>>
    /\ UNCHANGED mrest

LoadFromConfig ==
    /\ plugin_manager /\ lastOp.op = "new"
    /\ \E file \in ManagerFiles, e \in EnvFor({"slack", "github", "file_watcher"}) :
         LET loaded == load_from_config(plugins, file, e)
         IN  /\ cfgFile' = file
             /\ plugins' = loaded.plugins
             /\ mgrResult' = loaded.result
             /\ calls' = loaded.calls
             /\ env' = e
    /\ config_path' = ConfigPath
    /\ lastOp' = Op("load_from_config", "")
    /\ UNCHANGED <<plugin_manager, plugins_config_path, mrest>>

Register ==
    /\ plugin_manager /\ config_path = None
    /\ \E plugin \in Registrable :
         \E e \in EnvFor(Asking(plugin)) :
           LET r == register(plugins, plugin, e)
           IN  /\ plugins' = r.plugins
               /\ mgrResult' = r.result
               /\ calls' = r.calls
               /\ lastOp' = Op("register", plugin.kind)
    /\ env' = AllOk
    /\ UNCHANGED <<cfgFile, plugin_manager, config_path, plugins_config_path, mrest>>

ListenAll ==
    /\ plugin_manager
    /\ \E r \in ListenAnswers(plugins), order \in VisitOrders :
         LET got == listen_all(plugins, order, r, <<>>, EmptyBag)
         IN  /\ plugins' = got.plugins
             /\ mgrResult' = Ok(got.result)
             /\ calls' = got.calls
    /\ lastOp' = Op("listen_all", "") /\ env' = AllOk
    /\ UNCHANGED <<cfgFile, plugin_manager, config_path, plugins_config_path, mrest>>

Execute ==
    /\ plugin_manager
    /\ \E action \in ManagerActions :
         \E r \in RemoteAnswers(action), e \in EnvFor({"file_watcher"} \cap Refreshed(action)) :
           LET got == execute(plugins, action, e, r)
           IN  /\ plugins' = got.plugins
               /\ mgrResult' = got.result
               /\ calls' = got.calls
               /\ lastOp' = Op("execute", action)
    /\ env' = AllOk
    /\ UNCHANGED <<cfgFile, plugin_manager, config_path, plugins_config_path, mrest>>

Shutdown ==
    /\ plugin_manager
    /\ \E r \in {"ok", "failed"} :
         LET got == shutdown(plugins, Names, r, EmptyBag)
         IN  /\ plugins' = got.plugins
             /\ mgrResult' = got.result
             /\ calls' = got.calls
    /\ lastOp' = Op("shutdown", "") /\ env' = AllOk
    /\ UNCHANGED <<cfgFile, plugin_manager, config_path, plugins_config_path, mrest>>

\* What the remote side answers the plugins that ask it during a health
\* check.
HealthAnswers(reg) ==
    { r \in [PluginNames -> {"ok", "failed"}] :
        \A k \in PluginNames \ ({"slack", "github", "custom"} \cap DOMAIN reg) : r[k] = "ok" }

HealthCheckAll ==
    /\ plugin_manager
    /\ \E r \in HealthAnswers(plugins) :
         LET got == health_check_all(plugins, Names, r, <<>>, EmptyBag)
         IN  /\ plugins' = got.plugins
             /\ mgrResult' = Ok(got.result)
             /\ calls' = got.calls
    /\ lastOp' = Op("health_check_all", "") /\ env' = AllOk
    /\ UNCHANGED <<cfgFile, plugin_manager, config_path, plugins_config_path, mrest>>

\* file_watcher.rs 160-167: the watcher's callback pushes a notify event.
WatcherCallback ==
    /\ "file_watcher" \in DOMAIN plugins
    /\ plugins["file_watcher"].watcher \notin {None, Some(<<>>)}
    /\ Len(plugins["file_watcher"].events) < MaxPending
    /\ \E event \in RawEvents :
         plugins' = [plugins EXCEPT !["file_watcher"].events = Append(@, event)]
    /\ lastOp' = Op("callback", "") /\ mgrResult' = None /\ calls' = EmptyBag
    /\ env' = AllOk
    /\ UNCHANGED <<cfgFile, plugin_manager, config_path, plugins_config_path, mrest>>

NextManager ==
    \/ ManagerNew \/ NavigatorLoad \/ LoadFromConfig \/ Register
    \/ ListenAll \/ Execute \/ Shutdown \/ WatcherCallback

SpecManager == InitManager /\ [][NextManager]_vars

\* A manager filled by hand whose caller checks its health between the
\* registrations, the notifications and the shutdowns.
NextHealth ==
    ManagerNew \/ Register \/ Shutdown \/ WatcherCallback \/ HealthCheckAll

SpecHealth == InitManager /\ [][NextHealth]_vars

\* The calls of the last operation, and the events its Ok listens returned.
CallSet == BagToSet(calls)

RECURSIVE EventsOf(_)
EventsOf(S) ==
    IF S = {} THEN EmptyBag
    ELSE LET c == CHOOSE x \in S : TRUE
         IN  (IF IsOk(c.result) THEN SeqToBag(c.result.ok) ELSE EmptyBag)
             (+) EventsOf(S \ {c})

\* C4: listen_all never fails as a whole: every enabled plugin is listened
\* to, whatever another plugin's listen returned, and the events returned
\* are exactly those of the listens that returned Ok; a failing listen
\* contributes none.
C4_ListenAllSurvives ==
    lastOp.op = "listen_all" =>
        /\ IsOk(mgrResult)
        /\ \A n \in DOMAIN plugins : is_enabled(plugins[n]) =>
               \E c \in CallSet : c.plugin = n /\ c.method = "listen"
        /\ BagCardinality(calls) = Cardinality(CallSet)
        /\ SeqToBag(mgrResult.ok) = EventsOf(CallSet)

\* listen_all met a failing listen between two plugins that had events.
C4_Witness ==
    /\ lastOp.op = "listen_all"
    /\ \E c \in CallSet : c.plugin = "custom" /\ IsErr(c.result)
    /\ \E c \in CallSet : c.plugin = "github" /\ IsOk(c.result) /\ c.result.ok # <<>>
    /\ \E c \in CallSet : c.plugin = "file_watcher" /\ IsOk(c.result) /\ c.result.ok # <<>>
    /\ Len(mgrResult.ok) = 2

\* The configuration load_from_config read from the file.
LoadedConfig == IF IsOk(from_file(cfgFile)) THEN from_file(cfgFile).ok ELSE DefaultConfig

WouldInitialize(kind) ==
    /\ LoadedConfig.subs[kind] # None
    /\ LoadedConfig.subs[kind]["enabled"].bool
    /\ IsOk(initialize(NewPlugin(kind, LoadedConfig.subs[kind]), env).result)

\* C5: when load_from_config has run, every enabled kind whose own
\* initialize succeeds is in the registry, whatever happened to the others.
C5_OthersRegistered ==
    (lastOp.op \in {"load_from_config", "navigator_load"} /\ mgrResult # None) =>
        \A i \in DOMAIN BuiltIn : WouldInitialize(BuiltIn[i]) => BuiltIn[i] \in DOMAIN plugins

\* C6: execute routes by the action's tag: NotFound when the plugin is not
\* registered, NotEnabled without a call when it is disabled, otherwise one
\* call of that plugin's execute whose result is returned unchanged; no
\* other plugin is touched.
C6_ExecuteRoutes ==
    [][lastOp'.op = "execute" =>
        LET name == plugin_name(lastOp'.arg)
        IN  /\ DOMAIN plugins' = DOMAIN plugins
            /\ \A n \in DOMAIN plugins \ {name} : plugins'[n] = plugins[n]
            /\ IF name \notin DOMAIN plugins
               THEN mgrResult' = Err("NotFound", name) /\ calls' = EmptyBag
               ELSE IF ~is_enabled(plugins[name])
               THEN /\ mgrResult' = Err("NotEnabled", name) /\ calls' = EmptyBag
                    /\ plugins' = plugins
               ELSE calls' = Call(name, "execute", mgrResult')]_vars

\* execute refused a disabled plugin while an enabled one was registered.
C6_Witness ==
    /\ lastOp = Op("execute", "git_hub_create_issue")
    /\ mgrResult = Err("NotEnabled", "github")
    /\ \E n \in DOMAIN plugins : n # "github" /\ is_enabled(plugins[n]) /\ plugins[n].initialized

\* C7: after PluginManager.shutdown, which returns no error, no plugin holds
\* a watcher, a client or a pending event.
C7_ShutdownReleases ==
    lastOp.op = "shutdown" =>
        /\ mgrResult = Ok("unit")
        /\ \A n \in DOMAIN plugins :
               /\ plugins[n].watcher = None
               /\ ~plugins[n].client
               /\ plugins[n].events = <<>>

\* C10: register inserts the plugin only after its initialize returned Ok;
\* when initialize fails, register returns InitializationFailed naming the
\* plugin, the registry is as it was, and initialize was called once.
C10_RegisterAfterInit ==
    [][lastOp'.op = "register" =>
        LET name == lastOp'.arg
        IN  /\ BagCardinality(calls') = 1
            /\ \E c \in BagToSet(calls') :
                 /\ c.plugin = name /\ c.method = "initialize"
                 /\ IF IsErr(c.result)
                    THEN mgrResult' = Err("InitializationFailed", name) /\ plugins' = plugins
                    ELSE /\ mgrResult' = Ok("unit")
                         /\ DOMAIN plugins' = DOMAIN plugins \cup {name}
                         /\ \A n \in DOMAIN plugins \ {name} : plugins'[n] = plugins[n]]_vars

\* A register failed while the registry held another plugin.
C10_Witness ==
    /\ lastOp = Op("register", "file_watcher")
    /\ mgrResult = Err("InitializationFailed", "file_watcher")
    /\ DOMAIN plugins = {"slack"}

\* The calls of the last operation made to plugin n.
CallsTo(n) == { c \in CallSet : c.plugin = n }

\* C11: PluginManager.shutdown calls shutdown exactly once on every
\* registered plugin, whatever the others returned, and returns success.
C11_ShutdownAll ==
    lastOp.op = "shutdown" =>
        /\ mgrResult = Ok("unit")
        /\ BagCardinality(calls) = Cardinality(DOMAIN plugins)
        /\ \A n \in DOMAIN plugins :
               \E c \in CallsTo(n) : CallsTo(n) = {c} /\ c.method = "shutdown"

\* A shutdown in which the custom plugin failed and the plugins visited
\* after it were shut down all the same.
C11_Witness ==
    /\ lastOp.op = "shutdown"
    /\ DOMAIN plugins = {"github", "custom", "file_watcher", "slack"}
    /\ \E c \in CallsTo("custom") : IsErr(c.result)
    /\ \E c \in CallsTo("file_watcher") : IsOk(c.result)
    /\ \E c \in CallsTo("slack") : IsOk(c.result)

\* The file is absent or does not parse as a PluginConfig.
MissingOrCorrupt == cfgFile \in {NoFile, Garbage, WrongType}

\* C12: load_from_config on a missing or corrupt file returns success,
\* registers no plugin, calls no plugin and records the configuration path.
C12_LoadTolerant ==
    (lastOp.op \in {"load_from_config", "navigator_load"}
       /\ mgrResult # None /\ MissingOrCorrupt) =>
        /\ mgrResult = Ok("unit")
        /\ plugin_manager
        /\ plugins = <<>>
        /\ calls = EmptyBag
        /\ config_path = ConfigPath

\* A hand-made manager loaded a file that is JSON of the wrong shape.
C12_Witness ==
    /\ lastOp.op = "load_from_config" /\ cfgFile = WrongType
    /\ mgrResult = Ok("unit") /\ config_path = ConfigPath /\ plugins = <<>>

\* The batch the last operation's listen on plugin n returned, empty when it
\* was not called or failed.
Batch(n) ==
    IF \E c \in CallsTo(n) : IsOk(c.result)
    THEN (CHOOSE c \in CallsTo(n) : IsOk(c.result)).result.ok
    ELSE <<>>

RECURSIVE Batches(_)
Batches(order) == IF order = <<>> THEN <<>> ELSE Batch(Head(order)) \o Batches(Tail(order))

\* Every order of visit of a set of names.
Visits(S) == { o \in [1..Cardinality(S) -> S] : \A i, j \in DOMAIN o : o[i] = o[j] => i = j }

\* C27: listen_all calls listen only on registered plugins that are enabled,
\* a disabled one is never polled, and its result is the concatenation of
\* the per-plugin batches in the order of the visit: the events of one
\* plugin are contiguous and in the order that plugin returned them.
C27_ListenAllConcatenates ==
    lastOp.op = "listen_all" =>
        /\ \A c \in CallSet :
              c.method = "listen" /\ c.plugin \in DOMAIN plugins /\ is_enabled(plugins[c.plugin])
        /\ \A n \in DOMAIN plugins : ~is_enabled(plugins[n]) => CallsTo(n) = {}
        /\ IsOk(mgrResult)
        /\ \E order \in Visits(DOMAIN plugins) : mgrResult.ok = Batches(order)

\* A listen_all that skipped a disabled plugin and returned the file
\* watcher's event followed by the two events of the custom plugin.
C27_Witness ==
    /\ lastOp.op = "listen_all"
    /\ "github" \in DOMAIN plugins /\ ~is_enabled(plugins["github"])
    /\ mgrResult.ok = <<PluginEvent("file_added", FileA),
                        PluginEvent("slack_message", <<"ts1">>),
                        PluginEvent("slack_message", <<"ts2">>)>>

\* The status a plugin in this state reports without asking anybody, if any.
OwnStatus(p) ==
    IF p.kind = "custom" THEN None
    ELSE IF ~is_enabled(p) THEN Some(unhealthy("Plugin is disabled"))
    ELSE IF ~p.initialized THEN Some(unhealthy("Plugin not initialized"))
    ELSE IF p.kind = "file_watcher"
    THEN Some(IF p.watcher = None THEN unhealthy("Watcher not running") ELSE healthy)
    ELSE None

\* C24: health_check_all never fails and returns a mapping whose keys are
\* exactly the registered plugin names, enabled or not, each mapped to the
\* status that plugin's own health_check returned; it changes no plugin state
\* and no registry entry.
C24_HealthCheckAll ==
    [][lastOp'.op = "health_check_all" =>
         /\ IsOk(mgrResult')
         /\ DOMAIN mgrResult'.ok = DOMAIN plugins
         /\ plugins' = plugins
         /\ BagCardinality(calls') = Cardinality(DOMAIN plugins)
         /\ \A n \in DOMAIN plugins :
               /\ Call(n, "health_check", mgrResult'.ok[n]) \sqsubseteq calls'
               /\ OwnStatus(plugins[n]) # None => mgrResult'.ok[n] = OwnStatus(plugins[n]).some
               /\ (n # "custom" /\ mgrResult'.ok[n].healthy) =>
                     is_enabled(plugins[n]) /\ plugins[n].initialized]_vars

\* A health check of a registry that holds a disabled plugin, a healthy
\* one and one whose provider does not answer.
C24_Witness ==
    /\ lastOp.op = "health_check_all"
    /\ DOMAIN plugins = {"github", "file_watcher", "slack"}
    /\ mgrResult.ok["github"] = unhealthy("Plugin is disabled")
    /\ mgrResult.ok["file_watcher"] = healthy
    /\ mgrResult.ok["slack"] = unhealthy("Health check failed")

(***************************************************************************)
(* Concurrent calls on one PluginManager.  Every registry entry is an      *)
(* Arc<RwLock<Box<dyn Plugin>>>: listen_all, execute and shutdown take the *)
(* write guard of a plugin for the time of its method, health_check_all    *)
(* and enabled_plugins take the read guard.  register and load_from_config *)
(* need &mut self and cannot run beside another call.                      *)
(***************************************************************************)
NumTasks == 2
Tasks == 1..NumTasks
NoTask == 0

Mutating == {"listen", "execute", "shutdown"}
WriteOps == {"listen_all", "execute", "shutdown"}
ReadOps == {"health_check_all", "enabled_plugins"}

\* The registry the tasks share: two initialized plugins.
SharedRegistry ==
    register(register(<<>>, NewPlugin("slack", Enabled("slack", TRUE)), AllOk).plugins,
             NewPlugin("github", GitHubWatching), AllOk).plugins

\* RwLock::write().await returns when nobody holds a guard; read().await
\* returns when nobody holds the write guard.
WriteAdmitsReaders(n) == lockWriter[n] = NoTask

CanWrite(n) == lockWriter[n] = NoTask /\ lockReaders[n] = {}

CanRead(n) == lockWriter[n] = NoTask

\* The plugin method a manager call runs under the guard it took.
MethodOf(op, p) ==
    CASE op.op = "listen_all" -> IF is_enabled(p) THEN "listen" ELSE "skip"
      [] op.op = "execute" -> IF is_enabled(p) THEN "execute" ELSE "skip"
      [] op.op = "shutdown" -> "shutdown"
      [] op.op = "health_check_all" -> "health_check"
      [] OTHER -> "is_enabled"

\* The plugin once the method has run.
AfterMethod(op, p) ==
    CASE MethodOf(op, p) = "listen" -> listen(p, "none").plugin
      [] MethodOf(op, p) = "execute" -> plugin_execute(p, op.arg, AllOk, "ok").plugin
      [] MethodOf(op, p) = "shutdown" -> plugin_shutdown(p, "ok").plugin
      [] OTHER -> p

Idle == Op("idle", "")

InitLocks ==
    /\ IdleQuery
    /\ IdleWatcher
    /\ IdleTools
    /\ IdlePlugin
    /\ plugins_config_path = None
    /\ cfgFile = NoFile
    /\ IdleUpdaters
    /\ plugins = SharedRegistry
    /\ config_path = None /\ plugin_manager = TRUE /\ env = AllOk
    /\ lastOp = Op("none", "") /\ mgrResult = None /\ calls = EmptyBag
    /\ lockWriter = [n \in DOMAIN plugins |-> NoTask]
    /\ lockReaders = [n \in DOMAIN plugins |-> {}]
    /\ taskOp = [t \in Tasks |-> Idle]
    /\ taskTodo = [t \in Tasks |-> <<>>]
    /\ taskIn = [t \in Tasks |-> None]

lrest == <<cfgFile, qidle, uvars, config_path, plugin_manager, env, lastOp, mgrResult, calls>>

\* A task calls listen_all, shutdown, health_check_all or enabled_plugins,
\* which visit the registry in the HashMap's order.
BeginAll(t) ==
    /\ taskOp[t] = Idle
    /\ \E op \in (WriteOps \cup ReadOps) \ {"execute"} :
         \E order \in { o \in [1..Cardinality(DOMAIN plugins) -> DOMAIN plugins] :
                          \A i, j \in DOMAIN o : o[i] = o[j] => i = j } :
           /\ taskOp' = [taskOp EXCEPT ![t] = Op(op, "")]
           /\ taskTodo' = [taskTodo EXCEPT ![t] = order]
    /\ UNCHANGED <<plugins, lockWriter, lockReaders, taskIn, lrest>>

\* A task calls execute with an action of a registered plugin.
BeginExecute(t) ==
    /\ taskOp[t] = Idle
    /\ \E action \in ManagerActions :
         /\ plugin_name(action) \in DOMAIN plugins
         /\ taskOp' = [taskOp EXCEPT ![t] = Op("execute", action)]
         /\ taskTodo' = [taskTodo EXCEPT ![t] = <<plugin_name(action)>>]
    /\ UNCHANGED <<plugins, lockWriter, lockReaders, taskIn, lrest>>

\* plugin.write().await returns: the task is inside the plugin's method.
AcquireWrite(t) ==
    /\ taskOp[t].op \in WriteOps /\ taskIn[t] = None /\ taskTodo[t] # <<>>
    /\ LET n == Head(taskTodo[t])
       IN  /\ CanWrite(n)
           /\ lockWriter' = [lockWriter EXCEPT ![n] = t]
           /\ taskIn' = [taskIn EXCEPT ![t] =
                            [plugin |-> n, method |-> MethodOf(taskOp[t], plugins[n])]]
    /\ UNCHANGED <<plugins, lockReaders, taskOp, taskTodo, lrest>>

\* plugin.read().await returns.
AcquireRead(t) ==
    /\ taskOp[t].op \in ReadOps /\ taskIn[t] = None /\ taskTodo[t] # <<>>
    /\ LET n == Head(taskTodo[t])
       IN  /\ CanRead(n)
           /\ lockReaders' = [lockReaders EXCEPT ![n] = @ \cup {t}]
           /\ taskIn' = [taskIn EXCEPT ![t] =
                            [plugin |-> n, method |-> MethodOf(taskOp[t], plugins[n])]]
    /\ UNCHANGED <<plugins, lockWriter, taskOp, taskTodo, lrest>>

\* The method returns and the guard is dropped; the call goes on to the
\* next plugin or returns.
Release(t) ==
    /\ taskIn[t] # None
    /\ LET n == taskIn[t].plugin
       IN  /\ plugins' = [plugins EXCEPT ![n] = AfterMethod(taskOp[t], @)]
           /\ lockWriter' = [lockWriter EXCEPT ![n] = IF @ = t THEN NoTask ELSE @]
           /\ lockReaders' = [lockReaders EXCEPT ![n] = @ \ {t}]
    /\ taskIn' = [taskIn EXCEPT ![t] = None]
    /\ taskTodo' = [taskTodo EXCEPT ![t] = Tail(@)]
    /\ taskOp' = [taskOp EXCEPT ![t] = IF Len(taskTodo[t]) = 1 THEN Idle ELSE @]
    /\ UNCHANGED lrest

NextLocks ==
    \E t \in Tasks :
        BeginAll(t) \/ BeginExecute(t) \/ AcquireWrite(t) \/ AcquireRead(t) \/ Release(t)

SpecLocks == InitLocks /\ [][NextLocks]_vars

Inside(t, n, methods) ==
    taskIn[t] # None /\ taskIn[t].plugin = n /\ taskIn[t].method \in methods

\* C9: on each plugin at most one of listen, execute and shutdown is in
\* progress at a time, and none of them while a health_check of that plugin
\* is in progress; so a second execute has not started while the first runs.
C9_MutualExclusion ==
    \A n \in DOMAIN plugins : \A t, u \in Tasks :
        (t # u /\ Inside(t, n, Mutating)) => ~Inside(u, n, Mutating \cup {"health_check"})

\* One task is inside execute on slack while the other, which called
\* execute on slack too, waits for the guard.
C9_Witness ==
    /\ Inside(1, "slack", {"execute"})
    /\ taskOp[2] = Op("execute", "slack_send_message")
    /\ taskTodo[2] = <<"slack">> /\ taskIn[2] = None

(***************************************************************************)
(* One FileWatcherPlugin driven directly by a caller: initialize, the      *)
(* FileWatcherRefresh action and shutdown, in any order.                   *)
(***************************************************************************)
MaxWatchPaths == 2   \* configured paths of the plugin

Notes == <<"~", "/notes">>
SshKey == <<"~", "/.ssh", "/id_rsa">>
HomeAws == <<"/home/u", "/.aws">>

ConfiguredPaths == {Docs, Notes, SshKey, HomeAws, EtcApp}

PathLists ==
    UNION { { [i \in DOMAIN l |-> JStr(l[i])] : l \in [1..n -> ConfiguredPaths] } :
            n \in 0..MaxWatchPaths }

WatcherAnswers == {"ok", "create_failed", "watch_failed", "missing"}

InitWatcher ==
    /\ IdleQuery
    /\ plugins_config_path = None
    /\ cfgFile = NoFile
    /\ IdleUpdaters
    /\ IdleManager
    /\ IdleTasks
    /\ IdleTools
    /\ IdlePlugin
    /\ \E paths \in PathLists, on \in BOOLEAN :
         fwPlugin = NewPlugin("file_watcher",
                              [Watching(paths) EXCEPT !["enabled"] = JBool(on)])
    /\ fwOp = "new"
    /\ fwResult = None
    /\ IdleBuffer

wrest == <<qvars, uvars, mvars, lvars, evars, tvars, pvars, bvars>>

\* FileWatcherPlugin::initialize
WatcherInitialize ==
    /\ \E e \in WatcherAnswers :
         /\ fwPlugin' = file_watcher_initialize(fwPlugin, e).plugin
         /\ fwResult' = file_watcher_initialize(fwPlugin, e).result
    /\ fwOp' = "initialize"
    /\ UNCHANGED wrest

\* FileWatcherPlugin::execute(FileWatcherRefresh)
WatcherRefresh ==
    /\ \E e \in WatcherAnswers :
         /\ fwPlugin' = file_watcher_execute(fwPlugin, "file_watcher_refresh", e).plugin
         /\ fwResult' = file_watcher_execute(fwPlugin, "file_watcher_refresh", e).result
    /\ fwOp' = "refresh"
    /\ UNCHANGED wrest

\* FileWatcherPlugin::shutdown
WatcherShutdown ==
    /\ fwPlugin' = file_watcher_shutdown(fwPlugin)
    /\ fwResult' = Ok("unit")
    /\ fwOp' = "shutdown"
    /\ UNCHANGED wrest

MaxBuffered == 2     \* notify events waiting in the buffer of the plugin

FileC == <<"docs", "/c", ".md">>

\* What notify may report: a kind and the paths it concerns.
Notifications ==
    { [kind |-> "create", paths |-> <<FileA>>],
      [kind |-> "modify", paths |-> <<FileA, FileC>>],
      [kind |-> "remove", paths |-> <<FileA>>],
      [kind |-> "access", paths |-> <<FileC>>] }

\* file_watcher.rs 160-167: the callback of a running watcher pushes an
\* event.
WatcherNotify ==
    /\ fwPlugin.watcher \notin {None, Some(<<>>)}
    /\ Len(fwPlugin.events) < MaxBuffered
    /\ \E event \in Notifications :
         fwPlugin' = [fwPlugin EXCEPT !.events = Append(@, event)]
    /\ UNCHANGED <<fwOp, fwResult, wrest>>

\* FileWatcherPlugin::listen
WatcherListen ==
    /\ fwPlugin' = file_watcher_listen(fwPlugin).plugin
    /\ fwResult' = file_watcher_listen(fwPlugin).result
    /\ fwOp' = "listen"
    /\ UNCHANGED wrest

NextWatcher ==
    \/ WatcherInitialize \/ WatcherRefresh \/ WatcherShutdown
    \/ WatcherNotify \/ WatcherListen

SpecWatcher == InitWatcher /\ [][NextWatcher]_vars

\* The deny-listed locations, "~" written out.
DeniedLocations ==
    { <<"/etc">>, <<"/root">>, <<"/var/log">>, <<"/proc">>, <<"/sys">>,
      <<"/home/u", "/.ssh">>, <<"/home/u", "/.aws">>, <<"/home/u", "/.gnupg">>,
      <<"/home/u", "/.config">> }

WrittenOut(path) == IF Head(path) = "~" THEN <<"/home/u">> \o Tail(path) ELSE path

\* The text of the path, "~" written out, begins with the text of a
\* deny-listed location.
UnderDenied(path) == \E d \in DeniedLocations : IsPrefix(d, WrittenOut(path))

Watched ==
    IF fwPlugin.watcher = None THEN {}
    ELSE { fwPlugin.watcher.some[i] : i \in DOMAIN fwPlugin.watcher.some }

Configured == { fwPlugin.config["paths"].arr[i].str : i \in DOMAIN fwPlugin.config["paths"].arr }

\* C19: after any sequence of initialize, FileWatcherRefresh and shutdown,
\* no watched path lies under a deny-listed location, where a path lies
\* under a location when its text, "~" expanded on both sides, begins with
\* the location's; the watched paths are configured paths, and a disabled
\* plugin watches nothing.
C19_NoSensitiveWatch ==
    fwPlugin # None =>
        /\ \A w \in Watched :
              /\ ~UnderDenied(w)
              /\ \E c \in Configured : w = WrittenOut(c) /\ ~UnderDenied(c)
        /\ ~is_enabled(fwPlugin) => Watched = {}

\* A refresh of a plugin configured with /home/u/.aws and ~/notes watches
\* the notes only.
C19_Witness ==
    /\ fwPlugin # None /\ fwOp = "refresh" /\ IsOk(fwResult)
    /\ fwPlugin.config["paths"].arr = <<JStr(HomeAws), JStr(Notes)>>
    /\ Watched = { <<"/home/u", "/notes">> }

\* C20: initialize of an enabled plugin fails, and leaves the plugin not
\* initialized, whenever no configured path outside the deny list can be
\* watched; it never succeeds while watching nothing.
C20_FailsWhenNothingWatchable ==
    (fwPlugin # None /\ fwOp = "initialize" /\ is_enabled(fwPlugin)) =>
        /\ IsOk(fwResult) => Watched # {}
        /\ Watched = {} => (IsErr(fwResult) /\ ~fwPlugin.initialized)

\* Every configured path is deny-listed: initialize fails.
C20_AllDenied ==
    /\ fwPlugin # None /\ fwOp = "initialize" /\ is_enabled(fwPlugin)
    /\ Configured = {SshKey, EtcApp}
    /\ fwResult = Err("ConfigError", "No safe paths to watch")
    /\ ~fwPlugin.initialized

(***************************************************************************)
(* The self-configuration tools called one at a time on a navigator with   *)
(* or without a plugin configuration path (tools.rs 125-241).              *)
(***************************************************************************)
ToolInputs ==
    { ToolInput(p, u) : p \in {"slack", "github", "bogus", "all"},
                        u \in {None, EnableUpdate} }
    \cup { EmptyObj }

\* A file with a workspace, a Slack sub-record and a custom plugin kind.
FileFull ==
    JObj([k \in {"workspaces", "slack", "jira"} |->
            IF k = "workspaces" THEN JArr(<<JStr("ws")>>)
            ELSE IF k = "slack" THEN SlackGeneral
            ELSE JObj([j \in {"url"} |-> JStr("https://jira")])])

InitTools ==
    /\ IdleQuery
    /\ IdleWatcher
    /\ IdleUpdaters
    /\ IdleManager
    /\ IdleTasks
    /\ plugins_config_path \in {None, ConfigPath}
    /\ cfgFile \in InitialFiles \cup {FileFull}
    /\ IdleTools
    /\ IdlePlugin

trest == <<plugins_config_path, max_turns, api_key, turns, response, messages, apiCalls,
           qpc, qresult, api_response, tool_results, scripted,
           uvars, mvars, lvars, evars, wvars, pvars>>

\* get_plugin_config(input, navigator)
ToolGet ==
    /\ \E input \in ToolInputs :
         /\ toolInput' = input
         /\ toolResult' = get_plugin_config(input, plugins_config_path, cfgFile)
    /\ toolName' = "get_plugin_config"
    /\ UNCHANGED <<cfgFile, trest>>

\* update_plugin_config(input, navigator)
ToolUpdate ==
    /\ \E input \in ToolInputs :
         /\ toolInput' = input
         /\ toolResult' = update_plugin_config(input, plugins_config_path, cfgFile).result
         /\ cfgFile' = update_plugin_config(input, plugins_config_path, cfgFile).file
    /\ toolName' = "update_plugin_config"
    /\ UNCHANGED trest

NextTools == ToolGet \/ ToolUpdate

SpecTools == InitTools /\ [][NextTools]_vars

\* The names each tool knows: the plugin kinds, and "all" for the read.
KnownTo(tool) == IF tool = "get_plugin_config" THEN PluginKinds \cup {"all"} ELSE PluginKinds

\* The call has what the tool reads before it looks for the path: a plugin
\* name and, for an update, the updates.
Complete ==
    /\ toolResult # None
    /\ PluginField(toolInput) # None
    /\ toolName = "update_plugin_config" => JGet(toolInput, "updates") # None

UnknownName == PluginField(toolInput).some \notin KnownTo(toolName)

\* The configuration file can be read: it is absent or parses.
Loadable(file) == ~FileExists(file) \/ IsOk(from_file(file))

IsToolError(r) == IsErr(r) /\ r.err = "ToolError"

\* C18: get_plugin_config and update_plugin_config fail with a ToolError
\* when the plugin name is unknown ("Unknown plugin" once the configuration
\* has loaded) and when the navigator has no plugin configuration path ("No
\* plugins config path"); the failing call leaves the configuration file as
\* it was, neither created nor rewritten.
C18_ConfigToolsRefuse ==
    [][(Complete' /\ (UnknownName' \/ plugins_config_path = None)) =>
         /\ IsToolError(toolResult')
         /\ cfgFile' = cfgFile
         /\ plugins_config_path = None => toolResult'.msg = "No plugins config path"
         /\ (plugins_config_path # None /\ Loadable(cfgFile)) =>
               toolResult'.msg = "Unknown plugin"]_vars

\* An update for an unknown plugin was refused while no configuration file
\* exists, and none was created.
C18_Witness ==
    /\ toolResult # None
    /\ toolName = "update_plugin_config"
    /\ toolInput = ToolInput("bogus", EnableUpdate)
    /\ toolResult = Err("ToolError", "Unknown plugin")
    /\ plugins_config_path # None /\ cfgFile = NoFile

\* The event type listen gives for a notification kind.
TypeOfKind(kind) ==
    CASE kind = "create" -> "file_added"
      [] kind = "modify" -> "file_changed"
      [] kind = "remove" -> "file_removed"
      [] OTHER -> "none"

\* The buffer holds a notification of that kind for that path.
Notified(buffer, kind, path) ==
    \E i \in DOMAIN buffer :
        buffer[i].kind = kind /\ \E j \in DOMAIN buffer[i].paths : buffer[i].paths[j] = path

\* A step of listen: it alone leaves "listen" as the last call and the
\* buffer empty.
ListenStep == fwOp' = "listen" /\ fwPlugin'.events = <<>>

\* C21: one listen call returns at most one event per path, and every
\* returned event is FileAdded, FileChanged or FileRemoved according to a
\* buffered create, modify or remove notification for its path.
C21_OneEventPerPath ==
    [][ListenStep =>
         /\ IsOk(fwResult')
         /\ \A i, j \in DOMAIN fwResult'.ok :
               fwResult'.ok[i].key = fwResult'.ok[j].key => i = j
         /\ \A i \in DOMAIN fwResult'.ok :
               \E kind \in {"create", "modify", "remove"} :
                   /\ fwResult'.ok[i].type = TypeOfKind(kind)
                   /\ Notified(fwPlugin.events, kind, fwResult'.ok[i].key)]_vars

\* listen returned the creation of a.md and the change of c.md: the buffer
\* held a create for a.md and then a modify for a.md and c.md.
C21_Witness ==
    /\ fwPlugin # None /\ fwOp = "listen"
    /\ fwResult = Ok(<<PluginEvent("file_added", FileA), PluginEvent("file_changed", FileC)>>)
    /\ fwPlugin.events = <<>>

(***************************************************************************)
(* Failing tool calls and the conversation history of a query.             *)
(***************************************************************************)
ToolNames == {"submit_answer", "get_plugin_config", "update_plugin_config"}
ConfigTools == {"get_plugin_config", "update_plugin_config"}

\* The tool-use blocks of the latest response, in block order.
IsToolUse(block) == block.type = "tool_use"
ToolUses == SelectSeq(api_response.content, IsToolUse)

NoAnswerString(b) ==
    b.name = "submit_answer"
    /\ (JGet(b.input, "answer") = None \/ ~IsStr(JGet(b.input, "answer")))
UnknownTool(b) == b.name \notin ToolNames
NoConfigPath(b) == b.name \in ConfigTools /\ plugins_config_path = None
UnknownPlugin(b) ==
    /\ b.name \in ConfigTools /\ plugins_config_path # None
    /\ PluginField(b.input) # None
    /\ PluginField(b.input).some \notin KnownTo(b.name)

\* The call of block b fails for one of the four reasons.
MustFail(b) == NoAnswerString(b) \/ UnknownTool(b) \/ NoConfigPath(b) \/ UnknownPlugin(b)

\* The latest response is a tool_use response with a call that must fail.
FailingTurn ==
    api_response.stop_reason = "tool_use" /\ \E i \in DOMAIN ToolUses : MustFail(ToolUses[i])

\* The error of the failing call b, the configuration file being readable
\* in the case of an unknown plugin.
ErrorOf(b) ==
    CASE NoAnswerString(b) -> Err("ToolError", "Missing answer field")
      [] UnknownTool(b) -> Err("ToolError", "Unknown tool")
      [] NoConfigPath(b) -> Err("ToolError", "No plugins config path")
      [] OTHER -> Err("ToolError", "Unknown plugin")

\* C25: a tool call that fails during a turn (no answer string, unknown
\* tool, unknown plugin, no configuration path) ends the query with that
\* error: no answer is returned, even when a submit_answer call of the same
\* response succeeded, and no further model call is made.
C25_ToolFailureSurfaces ==
    /\ [](FailingTurn =>
            /\ qpc = "done" /\ IsErr(qresult) /\ ~IsOk(qresult)
            /\ (MustFail(ToolUses[1]) /\ (UnknownPlugin(ToolUses[1]) => Loadable(cfgFile))) =>
                  qresult = ErrorOf(ToolUses[1]))
    /\ [][FailingTurn => apiCalls' = apiCalls]_vars
    /\ [][(~FailingTurn /\ FailingTurn') => apiCalls' = apiCalls + 1]_vars

\* The first turn holds a submit_answer call that succeeded and then a call
\* of an unknown tool; two turns remain.
C25_Witness ==
    /\ FailingTurn /\ qpc = "done" /\ turns = 1 /\ max_turns = MaxTurns
    /\ Len(ToolUses) = 2
    /\ ToolUses[1].name = "submit_answer" /\ WellFormedSubmit(ToolUses[1].input)
    /\ UnknownTool(ToolUses[2])
    /\ qresult = Err("ToolError", "Unknown tool")

\* The tool-use blocks of a content, in block order.
ToolUsesOf(content) == SelectSeq(content, IsToolUse)

\* The batch holds one result per tool-use block of the content, in block
\* order, each with the correlation id and the tool name of its call.
BatchOf(content, results) ==
    /\ Len(results) = Len(ToolUsesOf(content))
    /\ \A i \in DOMAIN results :
          /\ results[i].tool_use_id = ToolUsesOf(content)[i].id
          /\ results[i].tool_name = ToolUsesOf(content)[i].name

\* The history is the question followed by pairs of an assistant message
\* with content blocks and a user message with the batch of their results.
PairedHistory ==
    messages # <<>> =>
        /\ messages[1] = Message("user", Text(create_answer_question_prompt(Question)))
        /\ Len(messages) % 2 = 1
        /\ \A k \in 1..((Len(messages) - 1) \div 2) :
              /\ messages[2 * k].role = "assistant"
              /\ messages[2 * k + 1].role = "user"
              /\ DOMAIN messages[2 * k].content = {"blocks"}
              /\ DOMAIN messages[2 * k + 1].content = {"tool_results"}
              /\ BatchOf(messages[2 * k].content.blocks,
                         messages[2 * k + 1].content.tool_results)

\* A tool_use turn whose tool calls all succeeded has just been taken.
ToolTurnTaken == apiCalls' = apiCalls + 1 /\ api_response'.stop_reason = "tool_use" /\ ~ToolFailed'

\* C26: after each tool_use turn, and before any next model call, the
\* history has grown by exactly two messages: the assistant message with the
\* model's content blocks, then one user message with all tool results of
\* the turn as one batch, one result per tool-use block, in block order,
\* each with the id and the tool name of its call; the history is otherwise
\* append-only and begins with the single user question message.
C26_HistoryGrowsByPairs ==
    /\ []PairedHistory
    /\ [][ToolTurnTaken =>
            messages' = messages \o <<Message("assistant", Blocks(api_response'.content)),
                                      Message("user", ToolResults(tool_results'))>>]_vars
    /\ [][(~ToolTurnTaken /\ messages # <<>>) => messages' = messages]_vars
    /\ [][apiCalls' # apiCalls => Len(messages) = 2 * apiCalls + 1]_vars

\* Three tool_use turns were taken; the second ran two calls.
C26_Witness ==
    /\ Len(messages) = 7 /\ apiCalls = 3
    /\ Len(messages[5].content.tool_results) = 2
    /\ messages[5].content.tool_results[1].tool_use_id = 1
    /\ messages[5].content.tool_results[2].tool_use_id = 2
    /\ messages[4].content.blocks # messages[6].content.blocks

(***************************************************************************)
(* One built-in plugin in the hands of a caller, beside its provider: the  *)
(* repository whose open issues GitHub lists, the file system that         *)
(* notifies the watcher, the Slack workspace.                              *)
(***************************************************************************)
PluginsAlone ==
    { NewPlugin("slack", Enabled("slack", on)) : on \in BOOLEAN }
    \cup { NewPlugin("github", GitHubWatching), NewPlugin("github", Enabled("github", FALSE)) }
    \cup { NewPlugin("file_watcher", [Watching(<<JStr(Docs)>>) EXCEPT !["enabled"] = JBool(on)]) :
             on \in BOOLEAN }

InitPlugin ==
    /\ IdleQuery
    /\ plugins_config_path = None
    /\ cfgFile = NoFile
    /\ IdleUpdaters
    /\ IdleManager
    /\ IdleTasks
    /\ IdleWatcher
    /\ IdleTools
    /\ plPlugin \in PluginsAlone
    /\ plOp = Op("new", "")
    /\ plResult = None
    /\ plCalled = FALSE
    /\ plOpen \in BOOLEAN
    /\ plQuiet = FALSE

prest == <<qvars, uvars, mvars, lvars, evars, wvars, tvars>>

\* Plugin::initialize
PluginInitialize ==
    /\ \E e \in EnvFor({plPlugin.kind}) :
         /\ plPlugin' = initialize(plPlugin, e).plugin
         /\ plResult' = initialize(plPlugin, e).result
    /\ plOp' = Op("initialize", "") /\ plCalled' = FALSE /\ plQuiet' = FALSE
    /\ UNCHANGED <<plOpen, prest>>

\* Plugin::shutdown
PluginShutdown ==
    /\ plPlugin' = plugin_shutdown(plPlugin, "ok").plugin
    /\ plResult' = plugin_shutdown(plPlugin, "ok").result
    /\ plOp' = Op("shutdown", "") /\ plCalled' = FALSE /\ plQuiet' = FALSE
    /\ UNCHANGED <<plOpen, prest>>

\* What the provider answers a poll: the open issue, nothing, or a failure.
PollAnswer(reachable) ==
    IF ~reachable THEN "failed" ELSE IF plOpen THEN "event" ELSE "none"

\* Plugin::listen
PluginListen ==
    /\ \E reachable \in BOOLEAN :
         /\ plPlugin' = listen(plPlugin, PollAnswer(reachable)).plugin
         /\ plResult' = listen(plPlugin, PollAnswer(reachable)).result
         /\ plQuiet' = (reachable /\ plPlugin.initialized)
    /\ plOp' = Op("listen", "") /\ plCalled' = FALSE
    /\ UNCHANGED <<plOpen, prest>>

\* Plugin::execute with any action
PluginExecute ==
    /\ \E action \in PluginActions, r \in {"ok", "failed"}, e \in EnvFor({"file_watcher"}) :
         LET got == plugin_execute(plPlugin, action, e, r)
         IN  /\ plPlugin' = got.plugin
             /\ plResult' = got.result
             /\ plCalled' = got.called
             /\ plOp' = Op("execute", action)
    /\ UNCHANGED <<plOpen, plQuiet, prest>>

\* Plugin::health_check
PluginHealthCheck ==
    /\ \E r \in {"ok", "failed"} : plResult' = health_check(plPlugin, r)
    /\ plOp' = Op("health_check", "") /\ plCalled' = FALSE
    /\ UNCHANGED <<plPlugin, plOpen, plQuiet, prest>>

\* Something happens at the provider: an issue is opened or closed, a file
\* changes (file_watcher.rs 160-167 pushes the notification when a watcher
\* runs), a message is posted.
ProviderEvent ==
    /\ CASE plPlugin.kind = "github" -> plOpen' = ~plOpen /\ plPlugin' = plPlugin
         [] plPlugin.kind = "file_watcher" ->
              /\ Len(plPlugin.events) < MaxBuffered
              /\ \E event \in Notifications :
                   plPlugin' = IF plPlugin.watcher \in {None, Some(<<>>)} THEN plPlugin
                               ELSE [plPlugin EXCEPT !.events = Append(@, event)]
              /\ plOpen' = plOpen
         [] OTHER -> UNCHANGED <<plPlugin, plOpen>>
    /\ plQuiet' = FALSE
    /\ plOp' = Op("provider", "") /\ plResult' = None /\ plCalled' = FALSE
    /\ UNCHANGED prest

NextPlugin ==
    \/ PluginInitialize \/ PluginShutdown \/ PluginListen \/ PluginExecute
    \/ PluginHealthCheck \/ ProviderEvent

SpecPlugin == InitPlugin /\ [][NextPlugin]_vars

\* C28: for every plugin, a listen made when no provider event has occurred
\* since the previous listen (made by the initialized plugin, answered by the
\* provider, with no restart in between) returns an empty list and no error:
\* what one listen returned is not returned again by the next.
C28_ListenDrains ==
    [][(plOp'.op = "listen" /\ plQuiet) => plResult' = Ok(<<>>)]_vars

\* The file watcher was listened to with nothing new since the listen
\* before, and returned nothing.
C28_WatcherDrained ==
    /\ plPlugin.kind = "file_watcher" /\ plPlugin.initialized
    /\ plPlugin.watcher \notin {None, Some(<<>>)}
    /\ plOp.op = "listen" /\ plQuiet
    /\ plResult = Ok(<<>>) /\ plPlugin.events = <<>>

\* The error a plugin of this kind answers an action it does not support.
NotSupported(kind) ==
    Err("ActionFailed",
        CASE kind = "slack" -> "Action not supported by Slack plugin"
          [] kind = "github" -> "Action not supported by GitHub plugin"
          [] OTHER -> "Action not supported by FileWatcher plugin")

\* C29: execute with an action of another plugin returns the not-supported
\* error, sends nothing to the provider and leaves the plugin as it was,
\* initialized or not.
C29_ForeignActionRejected ==
    [][(plOp'.op = "execute" /\ plugin_name(plOp'.arg) # Name(plPlugin)) =>
         /\ plResult' = NotSupported(plPlugin.kind)
         /\ ~plCalled'
         /\ plPlugin' = plPlugin]_vars

\* A Slack plugin that was never initialized refused a GitHub action.
C29_SlackRefused ==
    /\ plPlugin.kind = "slack" /\ ~plPlugin.initialized
    /\ plOp = Op("execute", "git_hub_create_issue")
    /\ plResult = NotSupported("slack") /\ ~plCalled

BuiltInNames == { BuiltIn[i] : i \in DOMAIN BuiltIn }

\* The built-in plugins that go by the name n.
Named(n) == { k \in BuiltInNames : Name(NewPlugin(k, DefaultSub(k))) = n }

\* C30: every action tag and every event tag routes to one of slack, github
\* and file_watcher, which is the name of exactly one built-in plugin; that
\* plugin's execute does not answer the action with its not-supported
\* error, the two others return an error without sending anything or
\* changing; the events a plugin's listen returns route to it.
C30_RoutingConsistent ==
    /\ [](/\ \A a \in PluginActions : Cardinality(Named(plugin_name(a))) = 1
          /\ \A t \in PluginEvents : Cardinality(Named(event_plugin_name(t))) = 1
          /\ (plOp.op = "listen" /\ IsOk(plResult)) =>
                \A i \in DOMAIN plResult.ok :
                    event_plugin_name(plResult.ok[i].type) = Name(plPlugin))
    /\ [][plOp'.op = "execute" =>
            IF plugin_name(plOp'.arg) = Name(plPlugin)
            THEN plResult' # NotSupported(plPlugin.kind)
            ELSE IsErr(plResult') /\ ~plCalled' /\ plPlugin' = plPlugin]_vars

\* An initialized GitHub plugin merged a pull request.
C30_Witness ==
    /\ plPlugin.kind = "github" /\ plPlugin.initialized
    /\ plOp = Op("execute", "git_hub_merge_pr")
    /\ plResult = Success /\ plCalled

(***************************************************************************)
(* One enabled FileWatcherPlugin over the docs directory, configured with  *)
(* every pairing of an include list and an ignore list, and driven as in   *)
(* SpecWatcher (file_watcher.rs 81-98, 143-150, 219-255).                  *)
(***************************************************************************)
MdGlob == <<"*", ".md">>
TmpGlob == <<"*", ".tmp">>
AMdGlob == <<"*", "/a", ".md">>

IncludeLists == { <<>>, <<JStr(MdGlob)>>, <<JStr(TmpGlob)>> }
IgnoreLists == { <<>>, <<JStr(AMdGlob)>>, <<JStr(TmpGlob)>> }

InitFilter ==
    /\ IdleQuery
    /\ plugins_config_path = None
    /\ cfgFile = NoFile
    /\ IdleUpdaters
    /\ IdleManager
    /\ IdleTasks
    /\ IdleTools
    /\ IdlePlugin
    /\ \E include \in IncludeLists, ignore \in IgnoreLists :
         fwPlugin = NewPlugin("file_watcher",
                              [Watching(<<JStr(Docs)>>) EXCEPT
                                 !["patterns"] = JArr(include),
                                 !["ignorePatterns"] = JArr(ignore)])
    /\ fwOp = "new"
    /\ fwResult = None
    /\ IdleBuffer

NextFilter ==
    \/ WatcherInitialize \/ WatcherRefresh \/ WatcherShutdown
    \/ WatcherNotify \/ WatcherListen

SpecFilter == InitFilter /\ [][NextFilter]_vars

\* The path matches a pattern of the configured list.
MatchesAny(list, path) == \E i \in DOMAIN list : GlobMatch(list[i].str, path)

\* What the configuration asks for: no ignore pattern matches, and the
\* include list is empty or one of its patterns matches.
Passes(config, path) ==
    /\ ~MatchesAny(config["ignorePatterns"].arr, path)
    /\ config["patterns"].arr = <<>> \/ MatchesAny(config["patterns"].arr, path)

\* The kind of the first buffered notification that names the path.
FirstKind(buffer, path) ==
    LET pairs == EventPaths(buffer)
        at == { i \in DOMAIN pairs : pairs[i].path = path }
    IN  IF at = {} THEN "none"
        ELSE pairs[CHOOSE i \in at : \A j \in at : i <= j].kind

Returned(result, path) == \E i \in DOMAIN result.ok : result.ok[i].key = path

\* C31: the filter listen applies lets a path through exactly when the path
\* matches no ignore pattern and the include list is empty or matches it: a
\* path whose first buffered notification is a create, modify or remove is
\* among the returned events if and only if it passes, so a path matching
\* both lists is left out and, without an include list, every path that is
\* not ignored is returned.
C31_FilterDecides ==
    [][ListenStep =>
         \A path \in {FileA, FileC} :
             FirstKind(fwPlugin.events, path) \in {"create", "modify", "remove"} =>
                 (Returned(fwResult', path) <=> Passes(fwPlugin.config, path))]_vars

\* With "*.md" included and "*/a.md" ignored, a change of a.md and c.md was
\* buffered and listen returned the change of c.md alone.
C31_Witness ==
    /\ fwPlugin # None /\ fwOp = "listen"
    /\ fwPlugin.config["patterns"].arr = <<JStr(MdGlob)>>
    /\ fwPlugin.config["ignorePatterns"].arr = <<JStr(AMdGlob)>>
    /\ fwResult = Ok(<<PluginEvent("file_changed", FileC)>>)

(***************************************************************************)
(* The plugins of a manager after PluginManager::shutdown (manager.rs      *)
(* 134-151, 166-177): they stay in the registry.                           *)
(***************************************************************************)
\* The result shows that the plugin asked its remote side.
AskedRemote(result) == \E r \in {"ok", "failed", "ratelimited"} : result = RemoteCall(r)

\* C32: shut down is terminal: in the call that follows a
\* PluginManager.shutdown, execute makes no built-in plugin perform a remote
\* call or restart its watcher, and listen_all gets no event from a
\* built-in plugin.
C32_ShutDownTerminal ==
    [][lastOp.op = "shutdown" =>
         /\ lastOp'.op = "execute" =>
              LET name == plugin_name(lastOp'.arg)
              IN  /\ name \in {"slack", "github"} => ~AskedRemote(mgrResult')
                  /\ (name = "file_watcher" /\ name \in DOMAIN plugins) =>
                         plugins'[name].watcher = None
         /\ lastOp'.op = "listen_all" =>
              \A c \in BagToSet(calls') :
                  (c.plugin \in BuiltInNames /\ IsOk(c.result)) => c.result.ok = <<>>]_vars

\* The Slack plugin, shut down and never registered again, sent a message.
C32_SentAfterShutdown ==
    /\ lastOp = Op("execute", "slack_send_message")
    /\ mgrResult = Success
    /\ "slack" \in DOMAIN plugins /\ ~plugins["slack"].initialized

(***************************************************************************)
(* The tool calls of one tool_use turn (adapter.rs 115-144, 214-233).      *)
(***************************************************************************)
\* The configuration file once every tool-use block from the i-th on has
\* run, each once and in block order, whatever the calls returned.
RECURSIVE FileAfterAll(_, _, _, _)
FileAfterAll(content, i, path, file) ==
    IF i > Len(content) THEN file
    ELSE IF content[i].type # "tool_use" THEN FileAfterAll(content, i + 1, path, file)
    ELSE FileAfterAll(content, i + 1, path,
                      execute_tool(content[i].name, content[i].input, path, file).file)

\* The submit_answer calls of a content.
SubmitsOf(content) ==
    { i \in DOMAIN content :
        content[i].type = "tool_use" /\ content[i].name = "submit_answer" }

FirstSubmitOf(content) ==
    content[CHOOSE i \in SubmitsOf(content) : \A j \in SubmitsOf(content) : i <= j]

\* A tool_use response has just been received.
ToolUseReceived == apiCalls' = apiCalls + 1 /\ api_response'.stop_reason = "tool_use"

\* C33 as stated: in every tool_use turn every tool-use block of the
\* response is executed once and in block order, so the configuration file
\* is what all of them, run in turn, leave behind.
C33_Original ==
    [][ToolUseReceived =>
         cfgFile' = FileAfterAll(api_response'.content, 1, plugins_config_path, cfgFile)]_vars

\* C33, amended: in a tool_use turn none of whose tool calls fails, every
\* tool-use block is executed once and in block order before the loop
\* decides whether to end: the configuration file is what all the blocks,
\* run in turn, leave behind, also those placed after a submit_answer call;
\* the results are one per block in block order; and the answer kept is that
\* of the first submit_answer call in block order.
C33_AllBlocksRun ==
    [][ToolTurnTaken =>
         /\ cfgFile' = FileAfterAll(api_response'.content, 1, plugins_config_path, cfgFile)
         /\ BatchOf(api_response'.content, tool_results')
         /\ SubmitsOf(api_response'.content) # {} =>
               /\ response' # None
               /\ response'.answer =
                     JGet(FirstSubmitOf(api_response'.content).input, "answer").str]_vars

\* The response held a submit_answer call and, after it, an update of the
\* Slack configuration: the file was written, and then the query returned
\* the submitted answer.
C33_Witness ==
    /\ qpc = "done" /\ IsOk(qresult) /\ turns = 1
    /\ Len(api_response.content) = 2
    /\ api_response.content[1].type = "tool_use"
    /\ api_response.content[1].name = "submit_answer"
    /\ api_response.content[2] = ToolUse(2, "update_plugin_config", ToolInput("slack", EnableUpdate))
    /\ qresult.ok.answer = "a1"
    /\ cfgFile \notin InitialFiles

(***************************************************************************)
(* The length of the query loop (adapter.rs 101-166).                      *)
(***************************************************************************)
\* C34: a query that has its key terminates whatever the model answers and
\* whatever max_turns >= 0 is; it never makes more than max_turns model
\* calls; and with max_turns = 0 it makes no model call and fails with "No
\* response generated".
C34_QueryTerminates ==
    /\ <>(qpc = "done")
    /\ [](apiCalls <= max_turns)
    /\ []((api_key /\ max_turns = 0 /\ qpc = "done") =>
            (apiCalls = 0 /\ qresult = NoResponseGenerated))

\* A query with a key and no turn to take ended without a model call.
C34_Witness ==
    /\ api_key /\ max_turns = 0 /\ qpc = "done"
    /\ apiCalls = 0 /\ qresult = NoResponseGenerated /\ messages # <<>>

\* C35: a response with stop reason end_turn, or none, and without a text
\* block ends the query at that turn without an answer: the query returns
\* the "No response generated" error and makes no further model call, even
\* when turns remain in the budget.
C35_NoTextNoAnswer ==
    /\ []((OrdinaryCompletion /\ TextBlocks = {}) =>
            (qpc = "done" /\ qresult = NoResponseGenerated))
    /\ [][(OrdinaryCompletion /\ TextBlocks = {}) => apiCalls' = apiCalls]_vars

\* The first of three turns ended with end_turn and a lone tool-use block.
C35_Witness ==
    /\ OrdinaryCompletion /\ TextBlocks = {}
    /\ api_response.stop_reason = "end_turn" /\ Len(api_response.content) = 1
    /\ turns = 1 /\ max_turns = 3
    /\ qresult = NoResponseGenerated

(***************************************************************************)
(* Plugin instances that leave their manager (manager.rs 73-90, 166-177;   *)
(* navigator.rs 81-97, 168-173).  An instance out of the registry, or in a *)
(* manager the navigator dropped, is out of reach of every later shutdown. *)
(***************************************************************************)
\* The last operation called shutdown on the plugin of that name.
ShutDownBy(called, n) ==
    \E c \in BagToSet(called) : c.plugin = n /\ c.method = "shutdown"

\* C36: no initialized plugin instance is leaked.  An initialized instance
\* replaced by a register under its name is shut down by that register; an
\* instance initialized by a load is kept in the registry or shut down by
\* the load, also when a later kind fails; and a shutdown leaves no built-in
\* plugin of the registry initialized.
C36_NoInstanceLeaked ==
    [][/\ (lastOp'.op = "register" /\ IsOk(mgrResult')
             /\ lastOp'.arg \in DOMAIN plugins /\ plugins[lastOp'.arg].initialized) =>
            ShutDownBy(calls', lastOp'.arg)
       /\ lastOp'.op \in {"navigator_load", "load_from_config"} =>
            \A c \in BagToSet(calls') :
                (c.method = "initialize" /\ IsOk(c.result)) =>
                    (c.plugin \in DOMAIN plugins' \/ ShutDownBy(calls', c.plugin))
       /\ lastOp'.op = "shutdown" =>
            \A n \in DOMAIN plugins' \cap BuiltInNames : ~plugins'[n].initialized]_vars

\* The navigator's load initialized the Slack plugin, another kind failed,
\* and the navigator is left without a manager.
C36_DroppedInitialized ==
    /\ lastOp.op = "navigator_load" /\ mgrResult # None /\ IsErr(mgrResult)
    /\ ~plugin_manager /\ plugins = <<>>
    /\ \E c \in BagToSet(calls) :
          c.plugin = "slack" /\ c.method = "initialize" /\ IsOk(c.result)
    /\ ~ShutDownBy(calls, "slack")

(***************************************************************************)
(* FileWatcherRefresh through the manager (file_watcher.rs 119-217,        *)
(* 258-266, 280-295; manager.rs 134-151).                                  *)
(***************************************************************************)
\* C37: execute(FileWatcherRefresh) on a registered, enabled file watcher
\* either succeeds, leaving the plugin initialized with a watcher and an
\* empty buffer, or fails, leaving it not initialized, without a watcher and
\* unhealthy; either way the buffered notifications are gone and the plugin
\* stays registered.
C37_RefreshAllOrNothing ==
    [][(lastOp' = Op("execute", "file_watcher_refresh")
          /\ "file_watcher" \in DOMAIN plugins /\ is_enabled(plugins["file_watcher"])) =>
         /\ "file_watcher" \in DOMAIN plugins'
         /\ plugins'["file_watcher"].events = <<>>
         /\ IF IsOk(mgrResult')
            THEN /\ plugins'["file_watcher"].initialized
                 /\ plugins'["file_watcher"].watcher # None
            ELSE /\ ~plugins'["file_watcher"].initialized
                 /\ plugins'["file_watcher"].watcher = None
                 /\ ~file_watcher_health_check(plugins'["file_watcher"]).healthy]_vars

\* A refresh failed at watch(): the plugin is registered, not initialized,
\* and holds the watcher it had just created.
C37_WatcherKept ==
    /\ lastOp = Op("execute", "file_watcher_refresh")
    /\ mgrResult = Err("InitializationFailed", "Failed to watch")
    /\ "file_watcher" \in DOMAIN plugins
    /\ ~plugins["file_watcher"].initialized
    /\ plugins["file_watcher"].watcher # None

(***************************************************************************)
(* The event buffer of one FileWatcherPlugin, shared by the caller's task  *)
(* and the watcher's callback, which runs on the watcher's own thread      *)
(* (file_watcher.rs 152-170, 205-227, 267-272).  The task takes the lock   *)
(* with lock().await; the callback takes it with try_lock() and does       *)
(* nothing when that fails.                                                *)
(***************************************************************************)
MaxDelivered == 3    \* notifications handed to the callback

InitBuffer ==
    /\ IdleQuery
    /\ plugins_config_path = None
    /\ cfgFile = NoFile
    /\ IdleUpdaters
    /\ IdleManager
    /\ IdleTasks
    /\ IdleTools
    /\ IdlePlugin
    /\ fwPlugin = NewPlugin("file_watcher", Watching(<<JStr(Docs)>>))
    /\ fwOp = "new"
    /\ fwResult = None
    /\ IdleBuffer

brest == <<qvars, uvars, mvars, lvars, evars, tvars, pvars>>

\* FileWatcherPlugin::initialize; the task is in no other method.
BufInitialize == evLock = "free" /\ WatcherInitialize

\* file_watcher.rs 160-167: the callback of a running watcher; the event is
\* pushed if try_lock() gets the lock.
BufCallback ==
    /\ fwPlugin.watcher \notin {None, Some(<<>>)}
    /\ delivered < MaxDelivered
    /\ delivered' = delivered + 1
    /\ \E event \in Notifications :
         fwPlugin' = IF evLock = "free"
                     THEN [fwPlugin EXCEPT !.events = Append(@, event)]
                     ELSE fwPlugin
    /\ UNCHANGED <<fwOp, fwResult, evLock, taken, removed, brest>>

\* file_watcher.rs 224-225: listen has the lock of the buffer.
BufListenLock ==
    /\ evLock = "free"
    /\ evLock' = "listen"
    /\ UNCHANGED <<fwPlugin, fwOp, fwResult, delivered, taken, removed, brest>>

\* file_watcher.rs 226-255: listen takes the buffer, lets the lock go and
\* turns what it took into events.
BufListenTake ==
    /\ evLock = "listen"
    /\ fwPlugin' = file_watcher_listen(fwPlugin).plugin
    /\ fwResult' = file_watcher_listen(fwPlugin).result
    /\ taken' = taken + Len(fwPlugin.events)
    /\ evLock' = "free"
    /\ fwOp' = "listen"
    /\ UNCHANGED <<delivered, removed, brest>>

\* file_watcher.rs 269: FileWatcherClear has the lock of the buffer.
BufClearLock ==
    /\ evLock = "free"
    /\ evLock' = "clear"
    /\ UNCHANGED <<fwPlugin, fwOp, fwResult, delivered, taken, removed, brest>>

\* file_watcher.rs 270-271: FileWatcherClear empties the buffer and returns.
BufClearDone ==
    /\ evLock = "clear"
    /\ fwPlugin' = file_watcher_execute(fwPlugin, "file_watcher_clear", "ok").plugin
    /\ fwResult' = file_watcher_execute(fwPlugin, "file_watcher_clear", "ok").result
    /\ removed' = removed + Len(fwPlugin.events)
    /\ evLock' = "free"
    /\ fwOp' = "clear"
    /\ UNCHANGED <<delivered, taken, brest>>

\* FileWatcherPlugin::shutdown: the watcher is dropped first, so that no
\* callback runs while the buffer is cleared.
BufShutdown ==
    /\ evLock = "free"
    /\ fwPlugin' = file_watcher_shutdown(fwPlugin)
    /\ fwResult' = Ok("unit")
    /\ removed' = removed + Len(fwPlugin.events)
    /\ fwOp' = "shutdown"
    /\ UNCHANGED <<evLock, delivered, taken, brest>>

NextBuffer ==
    \/ BufInitialize \/ BufCallback \/ BufListenLock \/ BufListenTake
    \/ BufClearLock \/ BufClearDone \/ BufShutdown

SpecBuffer == InitBuffer /\ [][NextBuffer]_vars

\* C38: no notification is lost between the callback and listen: every
\* notification handed to the callback of a running watcher is still in the
\* buffer, or was taken by one listen, or was removed by a clear or a
\* shutdown.
C38_NoNotificationLost ==
    delivered = Len(fwPlugin.events) + taken + removed

\* Two notifications were handed to the callback, the second while listen
\* held the lock; listen returned the first and the buffer is empty.
C38_DroppedDuringListen ==
    /\ fwOp = "listen" /\ evLock = "free"
    /\ delivered = 2 /\ taken = 1 /\ removed = 0
    /\ fwPlugin.events = <<>>
    /\ fwResult = Ok(<<PluginEvent("file_added", FileA)>>)

(***************************************************************************)
(* The events of one listen call against the notifications it drained      *)
(* (file_watcher.rs 229-255).                                              *)
(***************************************************************************)
Changes == {"create", "modify", "remove"}

\* The kind of the first buffered create, modify or remove that names the
\* path.
FirstChange(buffer, path) ==
    LET pairs == EventPaths(buffer)
        at == { i \in DOMAIN pairs : pairs[i].path = path /\ pairs[i].kind \in Changes }
    IN  IF at = {} THEN "none"
        ELSE pairs[CHOOSE i \in at : \A j \in at : i <= j].kind

\* C39: in one listen call every path that passes the filter and has a
\* create, modify or remove notification in the drained buffer yields
\* exactly one event, of the kind of its first such notification, whatever
\* other notifications for the path come before it.
C39_EveryChangeReported ==
    [][ListenStep =>
         \A path \in {FileA, FileC} :
             (Passes(fwPlugin.config, path) /\ FirstChange(fwPlugin.events, path) # "none") =>
                 /\ Cardinality({ i \in DOMAIN fwResult'.ok : fwResult'.ok[i].key = path }) = 1
                 /\ \E i \in DOMAIN fwResult'.ok :
                        fwResult'.ok[i] =
                            PluginEvent(TypeOfKind(FirstChange(fwPlugin.events, path)), path)]_vars

\* The buffer held an access to c.md and then a modify of a.md and c.md:
\* listen returned the change of a.md alone.
C39_ChangeSwallowed ==
    /\ fwPlugin # None /\ fwOp = "listen"
    /\ fwPlugin.initialized
    /\ fwResult = Ok(<<PluginEvent("file_changed", FileA)>>)

(***************************************************************************)
(* What the configuration tools leave of the persisted configuration       *)
(* (tools.rs 125-163, 189-234; schemas/plugins.rs 8-37).                   *)
(***************************************************************************)
\* C40: update_plugin_config for plugin P changes only P's sub-record of
\* the persisted configuration: read back, the sub-records of the other
\* kinds, the workspaces and the map of custom kinds are as they were read
\* before the call, and a failing call leaves the file as it was;
\* get_plugin_config never changes the file.
C40_UpdateFrame ==
    [][/\ toolName' = "get_plugin_config" => cfgFile' = cfgFile
       /\ toolName' = "update_plugin_config" =>
            IF IsOk(toolResult')
            THEN /\ IsOk(LoadConfig(cfgFile)) /\ IsOk(LoadConfig(cfgFile'))
                 /\ LoadConfig(cfgFile').ok.workspaces = LoadConfig(cfgFile).ok.workspaces
                 /\ LoadConfig(cfgFile').ok.custom = LoadConfig(cfgFile).ok.custom
                 /\ \A k \in PluginKinds \ {PluginField(toolInput').some} :
                        LoadConfig(cfgFile').ok.subs[k] = LoadConfig(cfgFile).ok.subs[k]
            ELSE cfgFile' = cfgFile]_vars

\* An update of the GitHub sub-record succeeded on a file that holds a
\* workspace, a Slack sub-record and a custom kind: all three are there, and
\* so is the GitHub sub-record.
C40_Witness ==
    /\ toolResult # None /\ toolName = "update_plugin_config"
    /\ toolInput = ToolInput("github", EnableUpdate) /\ IsOk(toolResult)
    /\ IsOk(LoadConfig(cfgFile))
    /\ LoadConfig(cfgFile).ok.workspaces = <<JStr("ws")>>
    /\ DOMAIN LoadConfig(cfgFile).ok.custom = {"jira"}
    /\ LoadConfig(cfgFile).ok.subs["slack"] # None
    /\ LoadConfig(cfgFile).ok.subs["github"] # None

====
